---- MODULE Spec2Model ----
(***************************************************************************)
(* verwatch: the per-project Monitor Actor (backend/src/project/monitor.rs) *)
(* and its Registry Coordinator (backend/src/repository/registry.rs).       *)
(*                                                                          *)
(* One Monitor Actor is modelled with its durable storage (the keys         *)
(* "config" and "current_version") and its single alarm slot.  Every       *)
(* handler is one atomic action (the platform serialises a Durable Object's *)
(* events).  What the outside world answers during a handler (the upstream  *)
(* release fetched, the dispatch status, the secrets the environment        *)
(* resolves) is an input of the action.                                     *)
(* Every storage and alarm call returns a Result in the source, and the     *)
(* handlers leave at the first Err with `?`: the call that fails, if any,   *)
(* is an input of the action.                                               *)
(***************************************************************************)
EXTENDS Integers, Sequences, FiniteSets, TLC

VARIABLES
    now,              \* Utc::now(), in model time units
    storage_config,   \* storage["config"]: Option<ProjectConfig>
    storage_version,  \* storage["current_version"]: Option<GitHubRelease>
    alarm,            \* the actor's alarm slot: Option<absolute time>
    last,             \* what the last handler did (observation only)
    members,          \* Registry: the stored set of unique keys
    monitor_configs,  \* Registry: key -> the config its Monitor Actor holds
    reg_last,         \* Registry: what the last registry operation did
    batch_configs,    \* Batch Runner: the configs list_projects returned
    batch_world,      \* Batch Runner: what GitHub and the env answer in a sweep
    kv,               \* Batch Runner: version store, key -> Option<timestamp>
    sweep,            \* Batch Runner: the state of one run_all
    rpc,              \* one call between actors: handler result, response, client result
    client,           \* WorkerHttpClient: one send, its requests and responses
    admin             \* AdminLogic: the create_project calls in progress, the last result

vars == <<now, storage_config, storage_version, alarm, last,
          members, monitor_configs, reg_last,
          batch_configs, batch_world, kv, sweep, rpc, client, admin>>

actor_vars == <<now, storage_config, storage_version, alarm, last>>
registry_vars == <<members, monitor_configs, reg_last>>
batch_vars == <<batch_configs, batch_world, kv, sweep>>
edge_vars == <<rpc, client, admin>>

(***************************************************************************)
(* Bounds of the model.                                                     *)
(***************************************************************************)
MaxTime == 1
MaxStamp == 2
\* The longest breadcrumb trail an error carries when a handler returns it.
MaxSpans == 2
\* The most create_project calls that are between their check and their
\* register at one time.
MaxPending == 2
\* The length of the longest project list a sweep runs over.
NumProjects == 6

(***************************************************************************)
(* Option<T> as a sequence of length at most one.                           *)
(***************************************************************************)
None == <<>>
Some(v) == <<v>>

(***************************************************************************)
(* shared/src/lib.rs: the domain model.                                     *)
(***************************************************************************)
PublishedAt == "published_at"
UpdatedAt == "updated_at"
ComparisonMode == {PublishedAt, UpdatedAt}

Paused == [status |-> "paused"]
running(next_check_at) == [status |-> "running", next_check_at |-> next_check_at]
is_paused(state) == state.status = "paused"

\* The requests an admin can submit (CreateProjectRequest), over small domains.
CreateProjectRequest ==
    [initial_delay : {0, 1},
     check_interval : {2},
     retry_interval : {1},
     comparison_mode : ComparisonMode,
     dispatch_token_secret : {None, Some("X")}]

\* ProjectConfig::new: a fresh config is Paused until Setup runs.
ProjectConfig(request) == [state |-> Paused, request |-> request]

(***************************************************************************)
(* utils/github/release.rs                                                  *)
(***************************************************************************)
Published(t) == [mode |-> "Published", t |-> t]
Updated(t) == [mode |-> "Updated", t |-> t]

\* A variant that also counts an equal timestamp as newer (not the source).
is_newer_than_swapped(self, current) ==
    IF self.timestamp.mode = current.timestamp.mode
    THEN IF self.timestamp.t >= current.timestamp.t THEN "Ok(true)" ELSE "Ok(false)"
    ELSE "Err"

is_newer_than(self, current) ==
    IF self.timestamp.mode = current.timestamp.mode
    THEN IF self.timestamp.t > current.timestamp.t THEN "Ok(true)" ELSE "Ok(false)"
    ELSE "Err"

(***************************************************************************)
(* utils/github/gateway.rs: what one call of fetch_latest_release can       *)
(* return for a comparison mode.  The gateway reads tag_name and only the   *)
(* timestamp field of the mode, and tags the timestamp with the mode.       *)
(***************************************************************************)
Stamps == 1..MaxStamp
\* The upstream names each release by a tag of its own.
TagOf(t) == <<"v", t>>

fetch_latest_release(mode, tag, t) ==
    [tag_name |-> tag,
     timestamp |-> IF mode = PublishedAt THEN Published(t) ELSE Updated(t)]

\* gateway.rs 92-162: the HTTP response is None (no 200 answer) or the JSON
\* root of the release, whose two timestamp fields may each be missing.  A
\* missing field of the configured mode is an ExternalApi error (None here).
Root(tag, published_at, updated_at) ==
    [tag_name |-> tag, published_at |-> published_at, updated_at |-> updated_at]

fetch_latest_release_of(mode, response) ==
    IF response = None THEN None
    ELSE LET root == response[1]
             field == IF mode = PublishedAt THEN root.published_at ELSE root.updated_at
         IN IF field = None THEN None
            ELSE Some(fetch_latest_release(mode, root.tag_name, field[1]))

(***************************************************************************)
(* The environment's secrets (EnvAdapter::secret).  PAT_TOKEN_NAME is not   *)
(* set, so the default dispatch secret is MY_GITHUB_PAT.                    *)
(***************************************************************************)
default_pat_name == "MY_GITHUB_PAT"
SecretNames == {default_pat_name, "X"}
SecretValue(name) == IF name = "X" THEN "s3cr3t" ELSE "global-pat"
\* env is the set of names the environment resolves.
secret(env, name) == IF name \in env THEN Some(SecretValue(name)) ELSE None

(***************************************************************************)
(* What a handler did: its name, its Result, the state it found, the        *)
(* storage and alarm calls that succeeded (in order), the call that failed, *)
(* the HTTP calls made, and the outcome of the check algorithm if it ran.   *)
(***************************************************************************)
PreStatus ==
    IF storage_config = None THEN "absent" ELSE storage_config[1].state.status

NoCheck == [res |-> "none", why |-> "none", remote |-> <<>>, local |-> <<>>]

NoOp == [op |-> "none", res |-> "Ok", pre |-> "absent", calls |-> <<>>,
         failed |-> "none", http |-> <<>>, check |-> NoCheck, arg |-> <<>>]

Has(seq, x) == \E i \in 1..Len(seq) : seq[i] = x

\* An HTTP call and the status of its response.
FetchCall(status) ==
    [call |-> "fetch", version |-> <<>>, token |-> "", status |-> status]
DispatchCall(version, token, status) ==
    [call |-> "dispatch", version |-> version, token |-> token, status |-> status]
Dispatches(http) == {i \in 1..Len(http) : http[i].call = "dispatch"}
Fetches(http) == {i \in 1..Len(http) : http[i].call = "fetch"}

(***************************************************************************)
(* Registry: the project keys, and what a registry operation did: its       *)
(* Result, and the storage and monitor calls it made, in order (the log of  *)
(* repository/registry/tests.rs).                                           *)
(***************************************************************************)
Keys == {"project-a", "project-b"}

RegDid(op, key, res, calls, failed) ==
    [op |-> op, key |-> key, res |-> res, listed |-> {}, calls |-> calls,
     failed |-> failed, was_member |-> key \in members, arg |-> <<>>,
     failing |-> {}]

RegNoOp == RegDid("none", "", "Ok", <<>>, "none")

(***************************************************************************)
(* error.rs: WatchError (status, message, spans), its HTTP status code, and *)
(* ErrorResponse, the form in which it crosses an actor boundary as JSON.   *)
(***************************************************************************)
WatchErrorStatus ==
    {"Store", "NotFound", "InvalidInput", "Unauthorized", "Serialization",
     "ExternalApi", "Conflict"}

status_code(status) ==
    CASE status \in {"InvalidInput", "Serialization"} -> 400
      [] status = "Unauthorized" -> 401
      [] status = "NotFound" -> 404
      [] status = "Conflict" -> 409
      [] status = "Store" -> 500
      [] status = "ExternalApi" -> 502

ErrorSpan(operation, detail) == [operation |-> operation, detail |-> detail]

WatchError(status, message, spans) ==
    [status |-> status, message |-> message, spans |-> spans]

in_op_with(e, operation, detail) ==
    [e EXCEPT !.spans = Append(@, ErrorSpan(operation, Some(detail)))]

RPC_ERROR_HEADER == "X-Rpc-Error"

\* serde: a span is written without its detail when it has none, and read
\* with none when the field is missing.
span_to_json(span) ==
    [n \in (IF span.detail = None THEN {"operation"} ELSE {"operation", "detail"}) |->
        IF n = "operation" THEN span.operation ELSE span.detail[1]]

span_from_json(obj) ==
    ErrorSpan(obj["operation"],
              IF "detail" \in DOMAIN obj THEN Some(obj["detail"]) ELSE None)

\* From<WatchError> for ErrorResponse, then Response::from_json: the spans
\* field is left out when the trail is empty.
to_json(e) ==
    [n \in (IF e.spans = <<>> THEN {"status", "message"}
            ELSE {"status", "message", "spans"}) |->
        CASE n = "status" -> e.status
          [] n = "message" -> e.message
          [] n = "spans" -> [k \in DOMAIN e.spans |-> span_to_json(e.spans[k])]]

\* serde_json_wasm::from_str::<ErrorResponse>, then From<ErrorResponse> for
\* WatchError: None when the body is no ErrorResponse; a missing spans field
\* reads as the empty trail.
from_json(body) ==
    IF body.kind # "json" THEN None
    ELSE LET obj == body.value IN
         IF ~({"status", "message"} \subseteq DOMAIN obj) THEN None
         ELSE IF obj["status"] \notin WatchErrorStatus THEN None
         ELSE Some(WatchError(obj["status"], obj["message"],
                   IF "spans" \in DOMAIN obj
                   THEN [k \in DOMAIN obj["spans"] |-> span_from_json(obj["spans"][k])]
                   ELSE <<>>))

JsonBody(value) == [kind |-> "json", value |-> value]
TextBody(text) == [kind |-> "text", value |-> text]

HttpResponse(status, headers, body) ==
    [status |-> status, headers |-> headers, body |-> body]

\* The errors a handler returns.
SpanOperations == {"storage.get", "rpc.call"}
SpanDetails == {None, Some("/monitor/setup")}
ErrorSpans == {ErrorSpan(o, d) : o \in SpanOperations, d \in SpanDetails}
Trails == UNION {[1..n -> ErrorSpans] : n \in 0..MaxSpans}
Messages == {<<"not found">>, <<"Secret missing">>}
WatchErrors ==
    {WatchError(st, m, sp) : st \in WatchErrorStatus, m \in Messages, sp \in Trails}

RpcPaths == {"/registry/trigger", "/monitor/trigger"}

RpcIdle ==
    [phase |-> "idle", path |-> "", returned |-> <<>>, response |-> <<>>,
     got |-> <<>>]

\* utils/request.rs: one WorkerHttpClient::send before its first request.
ClientIdle ==
    [pc |-> "call", req |-> <<>>, retry_count |-> 0, requests |-> 0, waited |-> 0,
     sent |-> <<>>, sent_after |-> <<>>, responses |-> <<>>, returned |-> <<>>]

\* logic.rs: what one invocation of AdminLogic returned and which registry
\* calls it made.
AdminDid(op, req, key, res, calls, replaced) ==
    [op |-> op, req |-> req, key |-> key, res |-> res, calls |-> calls,
     replaced |-> replaced]

\* logic.rs: no create_project in progress.
AdminIdle == [pending |-> {}, last |-> AdminDid("none", <<>>, <<>>, "Ok", <<>>, <<>>)]

(***************************************************************************)
(* Init: a freshly created actor (empty storage, no alarm) and an empty     *)
(* registry.                                                                *)
(***************************************************************************)
Init ==
    /\ now = 0
    /\ storage_config = None
    /\ storage_version = None
    /\ alarm = None
    /\ last = NoOp
    /\ members = {}
    /\ monitor_configs = [k \in {} |-> <<>>]
    /\ reg_last = RegNoOp
    /\ batch_configs = <<>>
    /\ batch_world = [response |-> <<>>, env |-> {}, status |-> <<>>]
    /\ kv = <<>>
    /\ sweep = [next |-> 1, checks |-> <<>>, results |-> <<>>, final |-> "running"]
    /\ rpc = RpcIdle
    /\ client = ClientIdle
    /\ admin = AdminIdle

\* The secret perform_check_flow looks up for a request (monitor.rs 234-243).
pat_key_of(request) ==
    IF request.dispatch_token_secret # None
    THEN request.dispatch_token_secret[1]
    ELSE default_pat_name

(***************************************************************************)
(* monitor.rs 189-260: perform_check_flow.                                  *)
(* sc is what the outside world answers during this check:                  *)
(*   sc.response: None (no 200 answer) or Some(JSON root of the release)    *)
(*   sc.fetched : what fetch_latest_release returns for it: None (Err) or   *)
(*                Some(release)                                             *)
(*   sc.env     : the secret names the environment resolves                 *)
(*   sc.status  : the HTTP status of the dispatch call                      *)
(*   sc.cf      : the storage call of the check that fails, or "none"       *)
(* The result holds the check's Result and the new stored fingerprint.      *)
(***************************************************************************)
CheckOut(res, why, remote, version, calls, http) ==
    [res |-> res, why |-> why, remote |-> remote, version |-> version,
     calls |-> calls, http |-> http]

\* local is the fingerprint the check read (monitor.rs 213), when it got
\* that far.
Summary(chk) ==
    [res |-> chk.res, why |-> chk.why, remote |-> chk.remote,
     local |-> IF chk.why \in {"fetch", "no_timestamp"}
                  \/ (chk.why = "storage" /\ Dispatches(chk.http) = {})
               THEN <<>> ELSE <<storage_version>>]

\* A variant that stops at a fingerprint of the other mode (not the source).
proceeds_to_dispatch_same_mode_only(remote_release, local_state) ==
    \/ local_state = None
    \/ is_newer_than(remote_release, local_state[1]) = "Ok(true)"

\* A variant that never compares (not the source).
proceeds_to_dispatch_always(remote_release, local_state) == TRUE

\* monitor.rs 213-231: whether the flow goes on to dispatch, given the stored
\* fingerprint: none stored, a newer release, or a fingerprint of the other mode.
proceeds_to_dispatch(remote_release, local_state) ==
    \/ local_state = None
    \/ is_newer_than(remote_release, local_state[1]) # "Ok(false)"

\* monitor.rs 250-259: trigger_dispatch (gateway.rs 26-59: any status but 204
\* is an error), then the put of the fetched release.
\* A variant that writes the fingerprint before dispatching (not the source).
dispatch_and_store_before(remote_release, pat, sc) ==
    LET http == <<FetchCall(200), DispatchCall(remote_release.tag_name, pat, sc.status)>> IN
    IF sc.cf = "put_version"
    THEN CheckOut("Store", "storage", sc.fetched, storage_version, <<>>, http)
    ELSE IF sc.status # 204
    THEN CheckOut("Store", "dispatch", sc.fetched, Some(remote_release),
                  <<"put_version">>, http)
    ELSE CheckOut("Ok", "dispatched", sc.fetched, Some(remote_release),
                  <<"put_version">>, http)

\* The source: dispatch first, write the fingerprint only after a 204.
dispatch_and_store(remote_release, pat, sc) ==
    LET http == <<FetchCall(200), DispatchCall(remote_release.tag_name, pat, sc.status)>> IN
    IF sc.status # 204
    THEN CheckOut("Store", "dispatch", sc.fetched, storage_version, <<>>, http)
    ELSE IF sc.cf = "put_version"
    THEN CheckOut("Store", "storage", sc.fetched, storage_version, <<>>, http)
    ELSE CheckOut("Ok", "dispatched", sc.fetched, Some(remote_release),
                  <<"put_version">>, http)

perform_check_flow(config, sc) ==
    IF sc.fetched = None
    THEN IF sc.response = None
         THEN CheckOut("Store", "fetch", None, storage_version, <<>>, <<FetchCall(500)>>)
         ELSE CheckOut("Store", "no_timestamp", None, storage_version, <<>>,
                       <<FetchCall(200)>>)
    ELSE
    LET remote_release == sc.fetched[1] IN
    IF sc.cf = "get_version"
    THEN CheckOut("Store", "storage", sc.fetched, storage_version, <<>>, <<FetchCall(200)>>)
    ELSE
    IF ~proceeds_to_dispatch(remote_release, storage_version)
    THEN CheckOut("Ok", "not_newer", sc.fetched, storage_version, <<>>, <<FetchCall(200)>>)
    ELSE
    LET pat_key == pat_key_of(config.request)
        pat == secret(sc.env, pat_key)
    IN
    IF pat = None
    THEN CheckOut("Store", "secret", sc.fetched, storage_version, <<>>, <<FetchCall(200)>>)
    ELSE dispatch_and_store(remote_release, pat[1], sc)

\* The environments a check of `request` can meet: every secret resolves, or
\* every secret but the one it looks up.
Envs(request) == {SecretNames, SecretNames \ {pat_key_of(request)}}

\* One answer of the outside world to a check in comparison mode `mode`.
Answer(mode, response, env, status, cf) ==
    [response |-> response, fetched |-> fetch_latest_release_of(mode, response),
     env |-> env, status |-> status, cf |-> cf]

\* The upstream's latest release with timestamp t, both fields present.
Release(t) == Some(Root(TagOf(t), Some(t), Some(t)))

\* The same release without the timestamp field of `mode`.
ReleaseWithout(mode, t) ==
    IF mode = PublishedAt
    THEN Some(Root(TagOf(t), None, Some(t)))
    ELSE Some(Root(TagOf(t), Some(t), None))

\* The answers of the outside world to one check of a project with `request`.
CheckScenarios(request) ==
    LET mode == request.comparison_mode IN
    {Answer(mode, None, SecretNames, 204, "none"),
     Answer(mode, ReleaseWithout(mode, 1), SecretNames, 204, "none")}
    \cup
    {Answer(mode, Release(t), SecretNames, 204, "get_version") : t \in Stamps}
    \cup
    {Answer(mode, Release(t), env, 204, "none") : t \in Stamps, env \in Envs(request)}
    \cup
    {Answer(mode, Release(t), SecretNames, s.status, s.cf) :
        t \in Stamps,
        s \in {[status |-> 500, cf |-> "none"], [status |-> 204, cf |-> "put_version"]}}

(***************************************************************************)
(* A handler's outcome: the new storage and alarm, and what it did.         *)
(***************************************************************************)
Out(config, version, al, res, calls, failed, http, check, arg) ==
    [config |-> config, version |-> version, alarm |-> al,
     did |-> [res |-> res, pre |-> PreStatus, calls |-> calls, failed |-> failed,
              http |-> http, check |-> check, arg |-> arg]]

Apply(op, out) ==
    /\ storage_config' = out.config
    /\ storage_version' = out.version
    /\ alarm' = out.alarm
    /\ last' = [op |-> op, res |-> out.did.res, pre |-> out.did.pre,
                calls |-> out.did.calls, failed |-> out.did.failed,
                http |-> out.did.http, check |-> out.did.check, arg |-> out.did.arg]
    /\ UNCHANGED now

(***************************************************************************)
(* adapter.rs: AlarmScheduler::set_alarm(duration) puts the single alarm    *)
(* slot at now + duration, replacing whatever was pending.                  *)
(***************************************************************************)
\* A variant that fires at once whatever the duration (not the source).
set_alarm_ignoring_duration(duration) == Some(now)

set_alarm(duration) == Some(now + duration)

(***************************************************************************)
(* monitor.rs 77-89: setup.  f is the call that fails, or "none".           *)
(***************************************************************************)
\* A variant that forgets the fingerprint when a config is stored (not the
\* source).
setup_run_forgetting_version(request, f) ==
    LET delay == request.initial_delay
        next_check_at == now + delay
        config == [ProjectConfig(request) EXCEPT !.state = running(next_check_at)]
    IN IF f = "put_config"
       THEN Out(storage_config, storage_version, alarm, "Store", <<>>, f,
                <<>>, NoCheck, Some(request))
       ELSE IF f = "set_alarm"
       THEN Out(Some(config), None, alarm, "Store", <<"put_config">>, f,
                <<>>, NoCheck, Some(request))
       ELSE Out(Some(config), None, set_alarm(delay), "Ok",
                <<"put_config", "set_alarm">>, "none", <<>>, NoCheck, Some(request))

setup_run(request, f) ==
    LET delay == request.initial_delay
        next_check_at == now + delay
        config == [ProjectConfig(request) EXCEPT !.state = running(next_check_at)]
    IN IF f = "put_config"
       THEN Out(storage_config, storage_version, alarm, "Store", <<>>, f,
                <<>>, NoCheck, Some(request))
       ELSE IF f = "set_alarm"
       THEN Out(Some(config), storage_version, alarm, "Store", <<"put_config">>, f,
                <<>>, NoCheck, Some(request))
       ELSE Out(Some(config), storage_version, set_alarm(delay), "Ok",
                <<"put_config", "set_alarm">>, "none", <<>>, NoCheck, Some(request))

setup ==
    \E request \in CreateProjectRequest, f \in {"none", "put_config", "set_alarm"} :
        Apply("setup", setup_run(request, f))

(***************************************************************************)
(* monitor.rs 91-99: stop.                                                  *)
(***************************************************************************)
\* A variant that leaves the stored fingerprint behind (not the source).
stop_run_keeping_version(f) ==
    IF f = "delete_config"
    THEN Out(storage_config, storage_version, alarm, "Store", <<>>, f, <<>>, NoCheck, <<>>)
    ELSE IF f = "delete_alarm"
    THEN Out(None, storage_version, alarm, "Store", <<"delete_config">>, f,
             <<>>, NoCheck, <<>>)
    ELSE Out(None, storage_version, None, "Ok", <<"delete_config", "delete_alarm">>,
             "none", <<>>, NoCheck, <<>>)

stop_run(f) ==
    IF f = "delete_config"
    THEN Out(storage_config, storage_version, alarm, "Store", <<>>, f, <<>>, NoCheck, <<>>)
    ELSE IF f = "delete_version"
    THEN Out(None, storage_version, alarm, "Store", <<"delete_config">>, f,
             <<>>, NoCheck, <<>>)
    ELSE IF f = "delete_alarm"
    THEN Out(None, None, alarm, "Store", <<"delete_config", "delete_version">>, f,
             <<>>, NoCheck, <<>>)
    ELSE Out(None, None, None, "Ok",
             <<"delete_config", "delete_version", "delete_alarm">>, "none",
             <<>>, NoCheck, <<>>)

stop ==
    \E f \in {"none", "delete_config", "delete_version", "delete_alarm"} :
        Apply("stop", stop_run(f))

(***************************************************************************)
(* monitor.rs 101-103: get_config.                                          *)
(***************************************************************************)
\* A variant that reports a missing config as an error (not the source).
get_config_run_not_found(f) ==
    IF f = "get_config"
    THEN Out(storage_config, storage_version, alarm, "Store", <<>>, f, <<>>, NoCheck, <<>>)
    ELSE IF storage_config = None
    THEN Out(storage_config, storage_version, alarm, "NotFound", <<>>, "none",
             <<>>, NoCheck, <<>>)
    ELSE Out(storage_config, storage_version, alarm, "Ok", <<>>, "none",
             <<>>, NoCheck, storage_config)

get_config_run(f) ==
    IF f = "get_config"
    THEN Out(storage_config, storage_version, alarm, "Store", <<>>, f, <<>>, NoCheck, <<>>)
    ELSE Out(storage_config, storage_version, alarm, "Ok", <<>>, "none",
             <<>>, NoCheck, storage_config)

get_config ==
    \E f \in {"none", "get_config"} : Apply("get_config", get_config_run(f))

(***************************************************************************)
(* monitor.rs 105-130: switch_monitor.                                      *)
(***************************************************************************)
\* A variant of the pause branch that never cancels the alarm (not the source).
switch_to_paused_keep_alarm(config, f) ==
    LET config2 == [config EXCEPT !.state = Paused] IN
    IF f = "delete_alarm"
    THEN Out(Some(config2), storage_version, alarm, "Store", <<"put_config">>, f,
             <<>>, NoCheck, Some(TRUE))
    ELSE Out(Some(config2), storage_version, alarm, "Ok",
             <<"put_config">>, "none", <<>>, NoCheck, Some(TRUE))

\* monitor.rs 116-120: pause.
switch_to_paused(config, f) ==
    LET config2 == [config EXCEPT !.state = Paused] IN
    IF f = "delete_alarm"
    THEN Out(Some(config2), storage_version, alarm, "Store", <<"put_config">>, f,
             <<>>, NoCheck, Some(TRUE))
    ELSE Out(Some(config2), storage_version, None, "Ok",
             <<"put_config", "delete_alarm">>, "none", <<>>, NoCheck, Some(TRUE))

\* A variant of the resume branch that waits one check_interval (not the
\* source).
switch_to_running_delayed(config, f) ==
    LET next_check_at == now + config.request.check_interval
        config2 == [config EXCEPT !.state = running(next_check_at)]
    IN
    IF f = "set_alarm"
    THEN Out(Some(config2), storage_version, alarm, "Store", <<"put_config">>, f,
             <<>>, NoCheck, Some(FALSE))
    ELSE Out(Some(config2), storage_version, set_alarm(config.request.check_interval),
             "Ok", <<"put_config", "set_alarm">>, "none", <<>>, NoCheck, Some(FALSE))

\* monitor.rs 121-127: resume, with an immediate alarm.
switch_to_running(config, f) ==
    LET next_check_at == now
        config2 == [config EXCEPT !.state = running(next_check_at)]
    IN
    IF f = "set_alarm"
    THEN Out(Some(config2), storage_version, alarm, "Store", <<"put_config">>, f,
             <<>>, NoCheck, Some(FALSE))
    ELSE Out(Some(config2), storage_version, set_alarm(0), "Ok",
             <<"put_config", "set_alarm">>, "none", <<>>, NoCheck, Some(FALSE))

\* A variant without the early return (not the source).
already_always_false(is_currently_paused, paused) == FALSE

\* monitor.rs 111-114: the requested paused-ness already holds.
already(is_currently_paused, paused) == is_currently_paused = paused

\* A variant that stores a fresh paused-or-running record for an actor
\* without config instead of failing (not the source).
no_config_switch_creating(paused) ==
    Out(storage_config, storage_version, IF paused THEN None ELSE set_alarm(0),
        "Ok", <<"set_alarm">>, "none", <<>>, NoCheck, Some(paused))

\* monitor.rs 106-109: no stored config.
no_config_switch(paused) ==
    Out(storage_config, storage_version, alarm, "NotFound", <<>>, "none",
        <<>>, NoCheck, Some(paused))

switch_monitor_run(paused, f) ==
    LET same(res, failed) ==
            Out(storage_config, storage_version, alarm, res, <<>>, failed,
                <<>>, NoCheck, Some(paused))
    IN
    IF f = "get_config" THEN same("Store", f)
    ELSE IF storage_config = None THEN no_config_switch(paused)
    ELSE
    LET config == storage_config[1]
        is_currently_paused == is_paused(config.state)
    IN
    IF already(is_currently_paused, paused) THEN same("Ok", "none")
    ELSE IF f = "put_config" THEN same("Store", f)
    ELSE IF paused THEN switch_to_paused(config, f)
    ELSE switch_to_running(config, f)

SwitchFailures(paused) ==
    {"none", "get_config", "put_config", IF paused THEN "delete_alarm" ELSE "set_alarm"}

switch_monitor ==
    \E paused \in BOOLEAN : \E f \in SwitchFailures(paused) :
        Apply("switch_monitor", switch_monitor_run(paused, f))

(***************************************************************************)
(* monitor.rs 133-139: trigger.                                             *)
(***************************************************************************)
\* A variant that also restarts the schedule after the check (not the source).
trigger_run_rescheduling(f, sc) ==
    IF f = "get_config"
    THEN Out(storage_config, storage_version, alarm, "Store", <<>>, f, <<>>, NoCheck, <<>>)
    ELSE IF storage_config = None
    THEN Out(storage_config, storage_version, alarm, "NotFound", <<>>, "none",
             <<>>, NoCheck, <<>>)
    ELSE LET chk == perform_check_flow(storage_config[1], sc)
             interval == storage_config[1].request.check_interval
         IN
         Out(Some([storage_config[1] EXCEPT !.state = running(now + interval)]),
             chk.version, set_alarm(interval), chk.res,
             chk.calls \o <<"put_config", "set_alarm">>,
             IF chk.why = "storage" THEN sc.cf ELSE "none",
             chk.http, Summary(chk), <<>>)

trigger_run(f, sc) ==
    IF f = "get_config"
    THEN Out(storage_config, storage_version, alarm, "Store", <<>>, f, <<>>, NoCheck, <<>>)
    ELSE IF storage_config = None
    THEN Out(storage_config, storage_version, alarm, "NotFound", <<>>, "none",
             <<>>, NoCheck, <<>>)
    ELSE LET chk == perform_check_flow(storage_config[1], sc) IN
         Out(storage_config, chk.version, alarm, chk.res, chk.calls,
             IF chk.why = "storage" THEN sc.cf ELSE "none",
             chk.http, Summary(chk), <<>>)

NoScenario == Answer(PublishedAt, None, SecretNames, 204, "none")

trigger ==
    \/ /\ storage_config = None
       /\ \E f \in {"none", "get_config"} : Apply("trigger", trigger_run(f, NoScenario))
    \/ /\ storage_config # None
       /\ \/ Apply("trigger", trigger_run("get_config", NoScenario))
          \/ \E sc \in CheckScenarios(storage_config[1].request) :
                Apply("trigger", trigger_run("none", sc))

(***************************************************************************)
(* monitor.rs 143-187: on_alarm, called by ProjectMonitor::alarm            *)
(* (302-314), which logs its error and acknowledges the alarm.  The alarm   *)
(* is single-shot: the slot is empty while the handler runs, unless the     *)
(* handler sets it again.                                                   *)
(***************************************************************************)
\* A variant that never uses retry_interval (not the source).
next_interval_always_check(config, result) == config.request.check_interval

\* monitor.rs 171-175: the interval to the next check.
next_interval_of(config, result) ==
    IF result.res = "Ok"
    THEN config.request.check_interval
    ELSE config.request.retry_interval

\* A variant of the cancel branch that schedules the next fire instead (not
\* the source).
on_alarm_cancel_rescheduling(f) ==
    IF f = "delete_alarm"
    THEN Out(storage_config, storage_version, None, "Store", <<>>, f,
             <<>>, NoCheck, <<>>)
    ELSE Out(storage_config, storage_version, set_alarm(1), "Ok", <<"set_alarm">>,
             "none", <<>>, NoCheck, <<>>)

\* monitor.rs 147-159: no config stored, or a Paused one: cancel and return.
on_alarm_cancel(f) ==
    IF f = "delete_alarm"
    THEN Out(storage_config, storage_version, None, "Store", <<>>, f,
             <<>>, NoCheck, <<>>)
    ELSE Out(storage_config, storage_version, None, "Ok", <<"delete_alarm">>,
             "none", <<>>, NoCheck, <<>>)

on_alarm_run(f, sc) ==
    IF f = "get_config"
    THEN Out(storage_config, storage_version, None, "Store", <<>>, f, <<>>, NoCheck, <<>>)
    ELSE IF storage_config = None THEN on_alarm_cancel(f)
    ELSE IF is_paused(storage_config[1].state) THEN on_alarm_cancel(f)
    ELSE
    LET config == storage_config[1]
        result == perform_check_flow(config, sc)
        next_interval == next_interval_of(config, result)
        next_check_at == now + next_interval
        config2 == [config EXCEPT !.state = running(next_check_at)]
        check == Summary(result)
    IN
    IF f = "put_config"
    THEN Out(storage_config, result.version, None, "Store", result.calls, f,
             result.http, check, <<>>)
    ELSE IF f = "set_alarm"
    THEN Out(Some(config2), result.version, None, "Store",
             result.calls \o <<"put_config">>, f, result.http, check, <<>>)
    ELSE Out(Some(config2), result.version, set_alarm(next_interval), "Ok",
             result.calls \o <<"put_config", "set_alarm">>, "none",
             result.http, check, <<>>)

on_alarm ==
    /\ alarm # None
    /\ alarm[1] <= now
    /\ \/ /\ \/ storage_config = None
             \/ /\ storage_config # None
                /\ is_paused(storage_config[1].state)
          /\ \E f \in {"none", "get_config", "delete_alarm"} :
                Apply("on_alarm", on_alarm_run(f, NoScenario))
       \/ /\ storage_config # None
          /\ ~is_paused(storage_config[1].state)
          /\ \/ Apply("on_alarm", on_alarm_run("get_config", NoScenario))
             \/ \E f \in {"none", "put_config", "set_alarm"} :
                \E sc \in CheckScenarios(storage_config[1].request) :
                    Apply("on_alarm", on_alarm_run(f, sc))

(***************************************************************************)
(* Time passes.                                                             *)
(***************************************************************************)
Tick ==
    /\ now < MaxTime
    /\ now' = now + 1
    /\ last' = NoOp
    /\ UNCHANGED <<storage_config, storage_version, alarm>>

(***************************************************************************)
(* The configs an admin can register under a key: the key is derived from   *)
(* the config (BaseConfig::generate_unique_key), the revision stands for    *)
(* the rest of its contents.                                                *)
(***************************************************************************)
Revisions == {"r1", "r2"}
RegConfig(k, rev) == [unique_key |-> k, rev |-> rev]

\* The actor of key k holds config (Setup), or holds none any more (Stop).
Hold(configs, k, config) ==
    [x \in DOMAIN configs \cup {k} |-> IF x = k THEN config ELSE configs[x]]
Drop(configs, k) == [x \in DOMAIN configs \ {k} |-> configs[x]]

(***************************************************************************)
(* repository/registry.rs 39-50: register.  A forwarded Setup that returns  *)
(* Ok has stored the config in the addressed actor.  f is the call that     *)
(* fails, or "none".                                                        *)
(***************************************************************************)
\* A variant that does not set up a key that already is a member (not the
\* source).
register_once ==
    \E k \in Keys, rev \in Revisions, f \in {"none", "monitor:setup", "storage:add"} :
        LET config == RegConfig(k, rev) IN
        IF k \in members
        THEN /\ reg_last' = [RegDid("register", k, "Ok(key)", <<>>, "none")
                                EXCEPT !.arg = Some(config)]
             /\ UNCHANGED <<members, monitor_configs>>
        ELSE /\ monitor_configs' = IF f = "monitor:setup" THEN monitor_configs
                                   ELSE Hold(monitor_configs, k, config)
             /\ members' = IF f = "none" THEN members \cup {k} ELSE members
             /\ reg_last' =
                   [RegDid("register", k,
                           IF f = "none" THEN "Ok(key)" ELSE "Err",
                           CASE f = "monitor:setup" -> <<>>
                             [] f = "storage:add" -> << <<"monitor:setup", k>> >>
                             [] OTHER -> << <<"monitor:setup", k>>, <<"storage:add", k>> >>,
                           f)
                       EXCEPT !.arg = Some(config)]

register ==
    \E k \in Keys, rev \in Revisions, f \in {"none", "monitor:setup", "storage:add"} :
        LET config == RegConfig(k, rev) IN
        /\ monitor_configs' = IF f = "monitor:setup" THEN monitor_configs
                              ELSE Hold(monitor_configs, k, config)
        /\ members' = IF f = "none" THEN members \cup {k} ELSE members
        /\ reg_last' =
              [RegDid("register", k,
                      IF f = "none" THEN "Ok(key)" ELSE "Err",
                      CASE f = "monitor:setup" -> <<>>
                        [] f = "storage:add" -> << <<"monitor:setup", k>> >>
                        [] OTHER -> << <<"monitor:setup", k>>, <<"storage:add", k>> >>,
                      f)
                  EXCEPT !.arg = Some(config)]

(***************************************************************************)
(* repository/registry.rs 55-68: unregister.                                *)
(***************************************************************************)
\* A variant that removes the key before it stops the actor (not the source).
unregister_removing_first ==
    \E k \in Keys, f \in {"none", "storage:contains"} :
        IF f = "storage:contains"
        THEN /\ reg_last' = RegDid("unregister", k, "Err", <<>>, f)
             /\ UNCHANGED <<members, monitor_configs>>
        ELSE IF k \notin members
        THEN /\ reg_last' = RegDid("unregister", k, "Ok(false)",
                                   << <<"storage:contains", k>> >>, "none")
             /\ UNCHANGED <<members, monitor_configs>>
        ELSE /\ monitor_configs' = Drop(monitor_configs, k)
             /\ members' = members \ {k}
             /\ reg_last' = RegDid("unregister", k, "Ok(true)",
                                   << <<"storage:contains", k>>, <<"storage:remove", k>>,
                                      <<"monitor:stop", k>> >>, "none")

unregister ==
    \E k \in Keys, f \in {"none", "storage:contains", "monitor:stop", "storage:remove"} :
        IF f = "storage:contains"
        THEN /\ reg_last' = RegDid("unregister", k, "Err", <<>>, f)
             /\ UNCHANGED <<members, monitor_configs>>
        ELSE IF k \notin members
        THEN /\ reg_last' = RegDid("unregister", k, "Ok(false)",
                                   << <<"storage:contains", k>> >>, "none")
             /\ UNCHANGED <<members, monitor_configs>>
        ELSE IF f = "monitor:stop"
        THEN /\ reg_last' = RegDid("unregister", k, "Err",
                                   << <<"storage:contains", k>> >>, f)
             /\ UNCHANGED <<members, monitor_configs>>
        ELSE IF f = "storage:remove"
        THEN /\ monitor_configs' = Drop(monitor_configs, k)
             /\ reg_last' = RegDid("unregister", k, "Err",
                                   << <<"storage:contains", k>>, <<"monitor:stop", k>> >>, f)
             /\ UNCHANGED members
        ELSE /\ monitor_configs' = Drop(monitor_configs, k)
             /\ members' = members \ {k}
             /\ reg_last' = RegDid("unregister", k, "Ok(true)",
                                   << <<"storage:contains", k>>, <<"monitor:stop", k>>,
                                      <<"storage:remove", k>> >>, "none")

(***************************************************************************)
(* repository/registry.rs 91-93: is_registered.                             *)
(***************************************************************************)
is_registered ==
    \E k \in Keys, f \in {"none", "storage:contains"} :
        /\ reg_last' = IF f = "storage:contains"
                       THEN RegDid("is_registered", k, "Err", <<>>, f)
                       ELSE RegDid("is_registered", k,
                                   IF k \in members THEN "Ok(true)" ELSE "Ok(false)",
                                   << <<"storage:contains", k>> >>, "none")
        /\ UNCHANGED <<members, monitor_configs>>

(***************************************************************************)
(* repository/registry.rs 96-113: switch_monitor and trigger_check forward  *)
(* to the actor of a member key; neither changes which actors hold a        *)
(* config.                                                                  *)
(***************************************************************************)
\* A variant that forwards without the membership check (not the source).
Forward_unchecked(op, call, k, f) ==
    /\ reg_last' =
          IF f = call
          THEN RegDid(op, k, "Err", <<>>, f)
          ELSE RegDid(op, k, "Ok(true)", << <<call, k>> >>, "none")
    /\ UNCHANGED <<members, monitor_configs>>

Forward(op, call, k, f) ==
    /\ reg_last' =
          IF f = "storage:contains" THEN RegDid(op, k, "Err", <<>>, f)
          ELSE IF k \notin members
          THEN RegDid(op, k, "Ok(false)", << <<"storage:contains", k>> >>, "none")
          ELSE IF f = call
          THEN RegDid(op, k, "Err", << <<"storage:contains", k>> >>, f)
          ELSE RegDid(op, k, "Ok(true)", << <<"storage:contains", k>>, <<call, k>> >>, "none")
    /\ UNCHANGED <<members, monitor_configs>>

registry_switch_monitor ==
    \E k \in Keys, f \in {"none", "storage:contains", "monitor:switch"} :
        Forward("switch_monitor", "monitor:switch", k, f)

trigger_check ==
    \E k \in Keys, f \in {"none", "storage:contains", "monitor:trigger_check"} :
        Forward("trigger_check", "monitor:trigger_check", k, f)

(***************************************************************************)
(* repository/registry.rs 72-89: list.  One GetConfig call is made per      *)
(* member key, in the order the storage lists the keys (any order); failing *)
(* is the set of member keys whose GetConfig call fails.  A call that fails *)
(* and an actor that holds no config are both dropped from the result       *)
(* (r.ok().flatten()).                                                      *)
(***************************************************************************)
Orders(S) ==
    {o \in [1..Cardinality(S) -> S] :
        \A i, j \in 1..Cardinality(S) : i # j => o[i] # o[j]}

GetConfigCalls(order) == [i \in DOMAIN order |-> <<"monitor:get_config", order[i]>>]

\* A variant that returns the first GetConfig error (not the source).
list_failing_fast ==
    \E f \in {"none", "storage:list"}, failing \in SUBSET members :
        \E order \in Orders(members) :
        /\ reg_last' =
              IF f = "storage:list" THEN RegDid("list", "", "Err", <<>>, f)
              ELSE IF failing # {}
              THEN RegDid("list", "", "Err",
                          << <<"storage:list", "">> >> \o GetConfigCalls(order),
                          "monitor:get_config")
              ELSE [RegDid("list", "", "Ok",
                           << <<"storage:list", "">> >> \o GetConfigCalls(order), "none")
                       EXCEPT !.listed = {monitor_configs[k] :
                                             k \in members \cap DOMAIN monitor_configs}]
        /\ UNCHANGED <<members, monitor_configs>>

list ==
    \E f \in {"none", "storage:list"}, failing \in SUBSET members :
        \E order \in Orders(members) :
        /\ reg_last' =
              IF f = "storage:list" THEN RegDid("list", "", "Err", <<>>, f)
              ELSE [RegDid("list", "", "Ok",
                           << <<"storage:list", "">> >> \o GetConfigCalls(order), "none")
                       EXCEPT !.listed =
                                 {monitor_configs[k] :
                                     k \in (members \ failing) \cap DOMAIN monitor_configs},
                              !.failing = failing]
        /\ UNCHANGED <<members, monitor_configs>>

(***************************************************************************)
(* service.rs: the Batch Runner (WatchdogService).  run_all lists the       *)
(* projects and drives one check_project future per project through         *)
(* buffer_unordered.  A future is resumed at each of its await points, so   *)
(* the checks of different projects interleave between those points.        *)
(***************************************************************************)
CONCURRENCY_LIMIT == 5

Upstreams == {"u1", "u2"}
Downstream(i) == <<"d", i>>

\* A project of the Batch Runner: base (upstream, downstream, mode, secret
\* name) and the paused flag.
BatchProject(upstream, my, paused, mode, token_secret) ==
    [upstream |-> upstream, my |-> my, paused |-> paused,
     comparison_mode |-> mode, dispatch_token_secret |-> token_secret]

generate_unique_key(config) == <<config.upstream, "->", config.my>>

version_store_key(config) == <<"v:", config.upstream>>

get_comparison_timestamp(release, mode) ==
    IF mode = PublishedAt THEN release.published_at ELSE release.updated_at

global_dispatch_token == SecretValue(default_pat_name)

\* service.rs 107-120: the named secret, else the global token.
batch_token(config, env) ==
    IF config.dispatch_token_secret # None
       /\ secret(env, config.dispatch_token_secret[1]) # None
    THEN secret(env, config.dispatch_token_secret[1])[1]
    ELSE global_dispatch_token

\* service.rs 97-104: "No change" exactly when a stored time equals the
\* remote time.
batch_unchanged(local_time, remote_time) ==
    local_time # None /\ local_time[1] = remote_time

\* One future of the stream: where it is suspended, the release it holds,
\* and what it has called so far.
NewCheck ==
    [pc |-> "new", release |-> <<>>, local |-> <<>>, fetched |-> FALSE,
     read |-> {}, wrote |-> {}, dispatched |-> <<>>]

in_flight(s) == {i \in DOMAIN s.checks : s.checks[i].pc # "done"}

\* A variant that never holds a future back (not the source).
buffer_unordered_unbounded(s) == TRUE

\* buffer_unordered(CONCURRENCY_LIMIT): the stream is polled for its next
\* future only while fewer than the limit are in progress.
buffer_unordered(s) == Cardinality(in_flight(s)) < CONCURRENCY_LIMIT

Finish(i, check, outcome) ==
    [sweep EXCEPT !.checks[i] = [check EXCEPT !.pc = "done"],
                  !.results = Append(@, [i |-> i, outcome |-> outcome])]

\* run_all 146-159: the stream yields the next config and its future joins
\* the ones in progress.
run_all_next ==
    /\ sweep.final = "running"
    /\ sweep.next <= Len(batch_configs)
    /\ buffer_unordered(sweep)
    /\ sweep' = [sweep EXCEPT !.next = @ + 1, !.checks = Append(@, NewCheck)]
    /\ UNCHANGED <<batch_configs, batch_world, kv>>

\* A variant that runs the check of a paused project too (not the source).
skips_never(config) == FALSE

\* run_all 148: a paused project is skipped.
skips(config) == config.paused

\* run_all 148-153, check_project 79-91: the paused test, then the fetch of
\* the latest release and the timestamp of the configured mode.
check_project_fetch ==
    \E i \in DOMAIN sweep.checks :
        LET check == sweep.checks[i]
            config == batch_configs[i]
            response == batch_world.response[config.upstream]
            fetched == [check EXCEPT !.fetched = TRUE, !.release = response]
        IN
        /\ check.pc = "new"
        /\ sweep' =
             IF skips(config) THEN Finish(i, check, "Skipped (Paused)")
             ELSE IF response = None THEN Finish(i, fetched, "Error checking")
             ELSE IF get_comparison_timestamp(response[1], config.comparison_mode) = None
             THEN Finish(i, fetched, "Skipped (No timestamp)")
             ELSE [sweep EXCEPT !.checks[i] = [fetched EXCEPT !.pc = "get_version_state"]]
        /\ UNCHANGED <<batch_configs, batch_world, kv>>

\* check_project 94-104: the stored time is read and compared.
check_project_compare ==
    \E i \in DOMAIN sweep.checks, f \in BOOLEAN :
        LET check == sweep.checks[i]
            config == batch_configs[i]
            key == version_store_key(config)
            remote_time == get_comparison_timestamp(check.release[1], config.comparison_mode)[1]
            got == [check EXCEPT !.read = @ \cup {key}, !.local = Some(kv[key])]
        IN
        /\ check.pc = "get_version_state"
        /\ sweep' =
             IF f THEN Finish(i, check, "Error checking")
             ELSE IF batch_unchanged(kv[key], remote_time)
             THEN Finish(i, got, "No change")
             ELSE [sweep EXCEPT !.checks[i] = [got EXCEPT !.pc = "trigger_dispatch"]]
        /\ UNCHANGED <<batch_configs, batch_world, kv>>

\* check_project 107-124: the token is resolved and the dispatch is sent;
\* any answer but 204 is an error.
check_project_dispatch ==
    \E i \in DOMAIN sweep.checks :
        LET check == sweep.checks[i]
            config == batch_configs[i]
            token == batch_token(config, batch_world.env)
            sent == [check EXCEPT
                       !.dispatched = Some(<<check.release[1].tag_name, token>>)]
        IN
        /\ check.pc = "trigger_dispatch"
        /\ sweep' =
             IF batch_world.status[config.my] # 204
             THEN Finish(i, sent, "Error checking")
             ELSE [sweep EXCEPT !.checks[i] = [sent EXCEPT !.pc = "set_version_state"]]
        /\ UNCHANGED <<batch_configs, batch_world, kv>>

\* check_project 126-134: the remote time is stored.
check_project_store ==
    \E i \in DOMAIN sweep.checks, f \in BOOLEAN :
        LET check == sweep.checks[i]
            config == batch_configs[i]
            key == version_store_key(config)
            remote_time == get_comparison_timestamp(check.release[1], config.comparison_mode)[1]
        IN
        /\ check.pc = "set_version_state"
        /\ IF f
           THEN /\ sweep' = Finish(i, check, "Error checking")
                /\ kv' = kv
           ELSE /\ sweep' = Finish(i, [check EXCEPT !.wrote = @ \cup {key}], "Updated")
                /\ kv' = [kv EXCEPT ![key] = Some(remote_time)]
        /\ UNCHANGED <<batch_configs, batch_world>>

\* run_all 139-142 and 159-165: no project, or the collected outcomes joined.
run_all_join ==
    /\ sweep.final = "running"
    /\ sweep.next > Len(batch_configs)
    /\ in_flight(sweep) = {}
    /\ sweep' = [sweep EXCEPT !.final =
                   IF Len(batch_configs) = 0 THEN "No projects configured."
                   ELSE "joined"]
    /\ UNCHANGED <<batch_configs, batch_world, kv>>

\* The project lists a sweep runs over: three projects, two of them on the
\* same upstream with different downstreams, and a list longer than the
\* concurrency limit whose checks end at the fetch.
ShortList(paused) ==
    << BatchProject("u1", Downstream(1), FALSE, PublishedAt, None),
       BatchProject("u1", Downstream(2), FALSE, PublishedAt, Some("X")),
       BatchProject("u2", Downstream(3), paused, UpdatedAt, None) >>

LongList ==
    [i \in 1..NumProjects |->
        BatchProject("u2", Downstream(i), i % 3 = 0, PublishedAt, None)]

Downstreams(configs) == {configs[i].my : i \in DOMAIN configs}

BatchInit ==
    /\ now = 0
    /\ storage_config = None
    /\ storage_version = None
    /\ alarm = None
    /\ last = NoOp
    /\ members = {}
    /\ monitor_configs = [k \in {} |-> <<>>]
    /\ reg_last = RegNoOp
    /\ \/ /\ batch_configs \in {ShortList(p) : p \in BOOLEAN}
          /\ \E r \in {None, ReleaseWithout(PublishedAt, 1)}
                      \cup {Release(t) : t \in Stamps},
                env \in {SecretNames, SecretNames \ {"X"}},
                st \in {204, 500} :
                batch_world =
                    [response |-> [u \in Upstreams |-> IF u = "u1" THEN r ELSE Release(1)],
                     env |-> env,
                     status |-> [d \in Downstreams(batch_configs) |->
                                    IF d = Downstream(2) THEN st ELSE 204]]
          /\ \E v \in {None} \cup {Some(t) : t \in Stamps} :
                kv = [k \in {<<"v:", u>> : u \in Upstreams} |->
                         IF k = <<"v:", "u1">> THEN v ELSE None]
       \/ /\ batch_configs \in {<<>>, LongList}
          /\ \E r \in {None, ReleaseWithout(PublishedAt, 1)} :
                batch_world =
                    [response |-> [u \in Upstreams |-> r],
                     env |-> SecretNames,
                     status |-> [d \in Downstreams(batch_configs) |-> 204]]
          /\ kv = [k \in {<<"v:", u>> : u \in Upstreams} |-> None]
    /\ sweep = [next |-> 1, checks |-> <<>>, results |-> <<>>, final |-> "running"]
    /\ rpc = RpcIdle
    /\ client = ClientIdle
    /\ admin = AdminIdle

BatchNext ==
    \/ (run_all_next /\ UNCHANGED <<actor_vars, registry_vars, edge_vars>>)
    \/ (check_project_fetch /\ UNCHANGED <<actor_vars, registry_vars, edge_vars>>)
    \/ (check_project_compare /\ UNCHANGED <<actor_vars, registry_vars, edge_vars>>)
    \/ (check_project_dispatch /\ UNCHANGED <<actor_vars, registry_vars, edge_vars>>)
    \/ (check_project_store /\ UNCHANGED <<actor_vars, registry_vars, edge_vars>>)
    \/ (run_all_join /\ UNCHANGED <<actor_vars, registry_vars, edge_vars>>)

(***************************************************************************)
(* utils/rpc.rs: one call from RpcClient::send to RpcHandler::handle and    *)
(* back.                                                                    *)
(***************************************************************************)
\* RpcHandler::handle 145-167: the handler's result as a response.
respond(result) ==
    IF result.ok
    THEN HttpResponse(200, {}, JsonBody(result.value))
    ELSE HttpResponse(status_code(result.value.status), {RPC_ERROR_HEADER},
                      JsonBody(to_json(result.value)))

\* A variant that folds every failure into a generic error (not the source).
recover_generic(response, path) ==
    in_op_with(WatchError("Store",
                          <<"RPC Error", response.status, response.body>>, <<>>),
               "rpc.call", path)

\* RpcClient::send 67-97: the error made of a response that is not 200.
recover(response, path) ==
    IF RPC_ERROR_HEADER \in response.headers /\ from_json(response.body) # None
    THEN in_op_with(from_json(response.body)[1], "rpc.call", path)
    ELSE in_op_with(WatchError("Store",
                               <<"RPC Error", response.status, response.body>>, <<>>),
                    "rpc.call", path)

RpcOk(value) == [ok |-> TRUE, value |-> value]
RpcErr(e) == [ok |-> FALSE, value |-> e]

\* RpcHandler::handle: a request that is no POST or has no readable body is
\* answered with a plain error; otherwise the handler runs and its result is
\* sent back.
RpcHandler_handle ==
    /\ rpc.phase = "idle"
    /\ \E path \in RpcPaths :
          \/ \E e \in WatchErrors :
                rpc' = [rpc EXCEPT !.phase = "responded", !.path = path,
                                   !.returned = Some(RpcErr(e)),
                                   !.response = Some(respond(RpcErr(e)))]
          \/ rpc' = [rpc EXCEPT !.phase = "responded", !.path = path,
                                !.returned = Some(RpcOk(<<"unit">>)),
                                !.response = Some(respond(RpcOk(<<"unit">>)))]
          \/ \E plain \in {HttpResponse(405, {}, TextBody("Method Not Allowed")),
                           HttpResponse(400, {}, TextBody("Invalid JSON Body")),
                           HttpResponse(500, {}, TextBody("Failed to serialize error"))} :
                rpc' = [rpc EXCEPT !.phase = "responded", !.path = path,
                                   !.response = Some(plain)]

\* RpcClient::send 59-104: the fetch through the stub fails, or the response
\* is read.
RpcClient_send ==
    /\ rpc.phase = "responded"
    /\ \E f \in BOOLEAN :
          LET response == rpc.response[1] IN
          rpc' = [rpc EXCEPT
                    !.phase = IF f THEN "failed" ELSE "received",
                    !.got =
                        IF f
                        THEN Some(RpcErr(in_op_with(WatchError("Store", <<"fetch">>, <<>>),
                                                    "rpc.fetch", rpc.path)))
                        ELSE IF response.status # 200
                        THEN Some(RpcErr(recover(response, rpc.path)))
                        ELSE Some(RpcOk(response.body.value))]

RpcNext ==
    \/ (RpcHandler_handle /\ UNCHANGED <<actor_vars, registry_vars, batch_vars, client, admin>>)
    \/ (RpcClient_send /\ UNCHANGED <<actor_vars, registry_vars, batch_vars, client, admin>>)

(***************************************************************************)
(* utils/request.rs 93-141: WorkerHttpClient::send, the loop that retries   *)
(* once after a rate-limit answer.                                          *)
(***************************************************************************)
RATE_LIMIT_WAIT_SECONDS == 120
MAX_RETRIES == 1

\* What the remote end answers: a status and the X-RateLimit-Remaining
\* header, if any.
HttpStatuses == {200, 204, 403, 404, 500}
RemainingHeaders == {None, Some("0"), Some("1")}
FetchResponse(status, remaining) == [status |-> status, remaining |-> remaining]

SendOk(response) == [ok |-> TRUE, response |-> Some(response)]
SendErr == [ok |-> FALSE, response |-> None]

\* A variant that retries as long as the limit answer comes (not the source).
rate_limited_every_time(response, retry_count) ==
    response.status = 403 /\ response.remaining = Some("0")

\* request.rs 117-121: 403, a retry left, and the header saying "0".
rate_limited(response, retry_count) ==
    /\ response.status = 403
    /\ retry_count < MAX_RETRIES
    /\ response.remaining = Some("0")

\* request.rs 39-66: the requests the gateways hand to send.
HttpRequest(url, method, body) == [url |-> url, method |-> method, body |-> body]
HttpRequests ==
    {HttpRequest("releases/latest", "Get", None),
     HttpRequest("dispatches", "Post", Some("client_payload")),
     HttpRequest("dispatches", "Post", None),
     HttpRequest("releases/latest", "Put", None)}

\* request.rs 94-98: send is called with a request.
send_call ==
    /\ client.pc = "call"
    /\ \E req \in HttpRequests :
          client' = [client EXCEPT !.pc = "request", !.req = Some(req)]

\* request.rs 101-115: the request is built from req and sent.
send_request ==
    /\ client.pc = "request"
    /\ client' = [client EXCEPT !.pc = "response", !.requests = @ + 1,
                                !.sent = Append(@, client.req[1]),
                                !.sent_after = Append(@, client.waited)]

\* request.rs 115-139: the fetch fails, or its response is a rate-limit
\* answer to wait out, or it is returned.
send_response ==
    /\ client.pc = "response"
    /\ \/ client' = [client EXCEPT !.pc = "done", !.returned = Some(SendErr)]
       \/ \E status \in HttpStatuses, remaining \in RemainingHeaders :
             LET response == FetchResponse(status, remaining) IN
             client' =
                 IF rate_limited(response, client.retry_count)
                 THEN [client EXCEPT !.pc = "delay", !.retry_count = @ + 1,
                                     !.responses = Append(@, response)]
                 ELSE [client EXCEPT !.pc = "done",
                                     !.responses = Append(@, response),
                                     !.returned = Some(SendOk(response))]

\* request.rs 125-127: the cooldown, then the loop starts over.
send_delay ==
    /\ client.pc = "delay"
    /\ client' = [client EXCEPT !.pc = "request",
                                !.waited = @ + RATE_LIMIT_WAIT_SECONDS]

ClientNext ==
    \/ (send_call /\ UNCHANGED <<actor_vars, registry_vars, batch_vars, rpc, admin>>)
    \/ (send_request /\ UNCHANGED <<actor_vars, registry_vars, batch_vars, rpc, admin>>)
    \/ (send_response /\ UNCHANGED <<actor_vars, registry_vars, batch_vars, rpc, admin>>)
    \/ (send_delay /\ UNCHANGED <<actor_vars, registry_vars, batch_vars, rpc, admin>>)

(***************************************************************************)
(* logic.rs: AdminLogic on top of the Registry.  Names are strings, here    *)
(* sequences of characters; the unique key is the formatted string of       *)
(* shared/src/lib.rs 136-142.  create_project awaits two registry calls,    *)
(* is_registered and register, and other admin calls can run between them.  *)
(***************************************************************************)
UpstreamOwners == {<<"x">>, <<"x", "/">>}
UpstreamRepos == {<<"x">>, <<"/", "x">>, <<" ">>, <<>>}
MyOwners == {<<"m">>}
MyRepos == {<<"r">>}

BaseConfig(upstream_owner, upstream_repo, my_owner, my_repo) ==
    [upstream_owner |-> upstream_owner, upstream_repo |-> upstream_repo,
     my_owner |-> my_owner, my_repo |-> my_repo]

AdminRequests ==
    {BaseConfig(uo, ur, mo, mr) :
        uo \in UpstreamOwners, ur \in UpstreamRepos, mo \in MyOwners, mr \in MyRepos}

\* format!("{}/{}->{}/{}", ...): the four names with the separators between.
format_unique_key(base) ==
    base.upstream_owner \o <<"/">> \o base.upstream_repo \o <<"-", ">">>
        \o base.my_owner \o <<"/">> \o base.my_repo

\* ProjectConfig::new: the config carries its generated key.
AdminConfig(base) == [unique_key |-> format_unique_key(base), base |-> base]

RECURSIVE trim_start(_)
trim_start(str) ==
    IF str # <<>> /\ Head(str) = " " THEN trim_start(Tail(str)) ELSE str

RECURSIVE trim_end(_)
trim_end(str) ==
    IF str # <<>> /\ str[Len(str)] = " "
    THEN trim_end(SubSeq(str, 1, Len(str) - 1)) ELSE str

trim(str) == trim_end(trim_start(str))

\* A variant that accepts every repo name (not the source).
invalid_repo_never(base) == FALSE

\* logic.rs 34: the upstream repo is empty once trimmed.
invalid_repo(base) == trim(base.upstream_repo) = <<>>

\* A variant that never finds the key taken (not the source).
is_registered_never(key) == FALSE

\* registry.rs 91-93: the key is in the membership set.
is_registered_key(key) == key \in members

\* logic.rs 33-53: validation and the is_registered check; a request that
\* passes both goes on to register.
create_project_check ==
    \E base \in AdminRequests, f \in {"none", "registry:is_registered"} :
        LET config == AdminConfig(base)
            key == config.unique_key
            done(res, calls) ==
                /\ admin' = [admin EXCEPT
                               !.last = AdminDid("create_project", Some(config), Some(key),
                                                 res, calls, <<>>)]
        IN
        /\ UNCHANGED <<members, monitor_configs>>
        /\ IF invalid_repo(base) THEN done("InvalidInput", <<>>)
           ELSE IF f = "registry:is_registered"
           THEN done("Store", <<"registry:is_registered">>)
           ELSE IF is_registered_key(key)
           THEN done("Conflict", <<"registry:is_registered">>)
           ELSE /\ Cardinality(admin.pending) < MaxPending
                /\ config \notin admin.pending
                /\ admin' = [pending |-> admin.pending \cup {config},
                             last |-> AdminDid("create_project:checked", Some(config),
                                               Some(key), "Ok",
                                               <<"registry:is_registered">>, <<>>)]

\* logic.rs 55-61 with registry.rs 39-50: register sets the actor of the key
\* up with the config and then adds the key.
create_project_register ==
    \E config \in admin.pending, f \in {"none", "monitor:setup", "storage:add"} :
        LET key == config.unique_key
            held == IF key \in DOMAIN monitor_configs
                    THEN Some(monitor_configs[key]) ELSE None
        IN
        /\ monitor_configs' = IF f = "monitor:setup" THEN monitor_configs
                              ELSE Hold(monitor_configs, key, config)
        /\ members' = IF f = "none" THEN members \cup {key} ELSE members
        /\ admin' = [pending |-> admin.pending \ {config},
                     last |-> AdminDid("create_project", Some(config), Some(key),
                                       IF f = "none" THEN "Ok" ELSE "Store",
                                       <<"registry:is_registered", "registry:register">>,
                                       IF f = "monitor:setup" THEN None ELSE held)]

\* logic.rs 66-71 with registry.rs 55-68: delete_project unregisters the key.
delete_project ==
    \E key \in {format_unique_key(base) : base \in AdminRequests},
       f \in {"none", "monitor:stop", "storage:remove"} :
        /\ IF key \notin members
           THEN /\ UNCHANGED <<members, monitor_configs>>
                /\ admin' = [admin EXCEPT
                               !.last = AdminDid("delete_project", <<>>, Some(key),
                                                 "Ok(false)", <<"registry:unregister">>, <<>>)]
           ELSE /\ monitor_configs' = IF f = "monitor:stop" THEN monitor_configs
                                      ELSE Drop(monitor_configs, key)
                /\ members' = IF f = "none" THEN members \ {key} ELSE members
                /\ admin' = [admin EXCEPT
                               !.last = AdminDid("delete_project", <<>>, Some(key),
                                                 IF f = "none" THEN "Ok(true)" ELSE "Store",
                                                 <<"registry:unregister">>, <<>>)]

AdminNext ==
    \/ (create_project_check /\ UNCHANGED <<actor_vars, reg_last, batch_vars, rpc, client>>)
    \/ (create_project_register /\ UNCHANGED <<actor_vars, reg_last, batch_vars, rpc, client>>)
    \/ (delete_project /\ UNCHANGED <<actor_vars, reg_last, batch_vars, rpc, client>>)

RegistryNext ==
    \/ (register /\ UNCHANGED <<actor_vars, batch_vars, edge_vars>>)
    \/ (unregister /\ UNCHANGED <<actor_vars, batch_vars, edge_vars>>)
    \/ (is_registered /\ UNCHANGED <<actor_vars, batch_vars, edge_vars>>)
    \/ (registry_switch_monitor /\ UNCHANGED <<actor_vars, batch_vars, edge_vars>>)
    \/ (trigger_check /\ UNCHANGED <<actor_vars, batch_vars, edge_vars>>)
    \/ (list /\ UNCHANGED <<actor_vars, batch_vars, edge_vars>>)

Next ==
    \/ (setup /\ UNCHANGED <<registry_vars, batch_vars, edge_vars>>)
    \/ (stop /\ UNCHANGED <<registry_vars, batch_vars, edge_vars>>)
    \/ (get_config /\ UNCHANGED <<registry_vars, batch_vars, edge_vars>>)
    \/ (switch_monitor /\ UNCHANGED <<registry_vars, batch_vars, edge_vars>>)
    \/ (trigger /\ UNCHANGED <<registry_vars, batch_vars, edge_vars>>)
    \/ (on_alarm /\ UNCHANGED <<registry_vars, batch_vars, edge_vars>>)
    \/ (Tick /\ UNCHANGED <<registry_vars, batch_vars, edge_vars>>)

Spec == Init /\ [][Next]_vars

RegistrySpec == Init /\ [][RegistryNext]_vars

RpcSpec == Init /\ [][RpcNext]_vars

ClientSpec == Init /\ [][ClientNext]_vars

AdminSpec == Init /\ [][AdminNext]_vars

BatchSpec == BatchInit /\ [][BatchNext]_vars

\* The executor resumes a future whose awaited call has answered, and every
\* call answers or fails.
BatchFairSpec == BatchSpec /\ WF_vars(BatchNext)

(***************************************************************************)
(* Properties.                                                              *)
(***************************************************************************)
IsCheckOp(l) == l.op \in {"trigger", "on_alarm"} /\ l.check.res # "none"

TimerMatchesState ==
    storage_config # None =>
        IF is_paused(storage_config[1].state)
        THEN alarm = None
        ELSE alarm = Some(storage_config[1].state.next_check_at)

\* C1: between operations a stored config in state Running has exactly the
\* pending timer scheduled for its next_check_at, and a stored config in
\* state Paused has no pending timer.
C1_TimerInvariant == TimerMatchesState

\* C2: every invocation of OnAlarm ends with exactly one of a newly scheduled
\* timer or an explicit cancellation: a new timer when a Running config is
\* stored, a cancellation when the config is absent or Paused.
C2_EveryFireSchedulesOrCancels ==
    last.op = "on_alarm" =>
        LET scheduled == Has(last.calls, "set_alarm")
            cancelled == Has(last.calls, "delete_alarm")
        IN /\ scheduled # cancelled
           /\ last.pre = "running" => scheduled /\ alarm # None
           /\ last.pre \in {"absent", "paused"} => cancelled /\ alarm = None

\* C3: OnAlarm on a stored Running config runs the check once; when its own
\* storage and alarm calls succeed it stores Running with next_check_at =
\* now + interval and schedules the timer for that interval, the interval
\* being check_interval after a successful check and retry_interval after a
\* failed one.
C3_AlarmReschedulesByOutcome ==
    (last.op = "on_alarm" /\ last.pre = "running" /\ last.failed # "get_config") =>
        /\ last.check.res \in {"Ok", "Store"}
        /\ Cardinality(Fetches(last.http)) = 1
        /\ last.res = "Ok" =>
              LET request == storage_config[1].request
                  interval == IF last.check.res = "Ok"
                              THEN request.check_interval
                              ELSE request.retry_interval
              IN /\ storage_config[1].state = running(now + interval)
                 /\ alarm = Some(now + interval)
                 /\ Has(last.calls, "put_config")
                 /\ Has(last.calls, "set_alarm")

C3_Witness ==
    /\ last.op = "on_alarm"
    /\ last.pre = "running"
    /\ last.res = "Ok"
    /\ last.check.res = "Store"
    /\ alarm = Some(now + storage_config[1].request.retry_interval)

\* C4: a check that fetched a release and read the stored fingerprint calls
\* the dispatch endpoint if and only if the release is newer than the stored
\* fingerprint (none stored counts as newer), a global token being available;
\* it then makes exactly one dispatch call, carrying the new tag, and a check
\* that succeeds after dispatching has stored the new fingerprint.
GlobalTokenMissing(l) ==
    /\ l.check.why = "secret"
    /\ storage_config[1].request.dispatch_token_secret = None

C4_DispatchIffNewer ==
    [][ (/\ IsCheckOp(last')
         /\ last'.check.remote # None
         /\ last'.check.why # "storage"
         /\ ~GlobalTokenMissing(last')) =>
            LET remote == last'.check.remote[1]
                newer == proceeds_to_dispatch(remote, storage_version)
                sent == Dispatches(last'.http)
            IN /\ (sent # {}) <=> newer
               /\ newer => /\ Cardinality(sent) = 1
                           /\ \A i \in sent : last'.http[i].version = remote.tag_name
                           /\ last'.res = "Ok" => storage_version' = Some(remote)
               /\ ~newer => storage_version' = storage_version
      ]_vars

\* C5: the stored fingerprint is written only after a successful dispatch: a
\* check that makes no dispatch call, or whose dispatch call is not answered
\* 204, leaves the stored fingerprint unchanged, so a release that was newer
\* than the stored fingerprint still is at the next check.
DispatchedOk(l) == \E i \in Dispatches(l.http) : l.http[i].status = 204

C5_FingerprintOnlyAfterDispatch ==
    [][ /\ (IsCheckOp(last') /\ ~DispatchedOk(last')) =>
              /\ storage_version' = storage_version
              /\ ~Has(last'.calls, "put_version")
              /\ \A r \in {fetch_latest_release(m, TagOf(t), t) :
                              m \in ComparisonMode, t \in Stamps} :
                    proceeds_to_dispatch(r, storage_version)
                        => proceeds_to_dispatch(r, storage_version')
        /\ (storage_version' # storage_version /\ storage_version' # None) =>
              /\ IsCheckOp(last')
              /\ DispatchedOk(last')
              /\ storage_version' = last'.check.remote
      ]_vars

C5_Witness ==
    /\ last.op = "on_alarm"
    /\ last.check.why = "dispatch"
    /\ Dispatches(last.http) # {}
    /\ ~DispatchedOk(last)
    /\ storage_version # None
    /\ proceeds_to_dispatch(last.check.remote[1], storage_version)

\* C6: the membership set equals exactly the set of project keys whose actor
\* has been set up and not stopped since, after any sequence of registry
\* operations, each of which may succeed or fail.
C6_MembershipEqualsSetup == members = DOMAIN monitor_configs

\* C7 as stated: Setup(C) always succeeds, stores C as Running(now +
\* C.initial_delay) and leaves exactly the timer for that delay.
SetupStored ==
    /\ storage_config =
          Some([state |-> running(now + last.arg[1].initial_delay),
                request |-> last.arg[1]])
    /\ alarm = Some(now + last.arg[1].initial_delay)
    /\ last.calls = <<"put_config", "set_alarm">>

C8_SwitchSameStateNoop ==
    [][ (/\ last'.op = "switch_monitor"
         /\ storage_config # None
         /\ is_paused(storage_config[1].state) = last'.arg[1]) =>
            /\ storage_config' = storage_config
            /\ storage_version' = storage_version
            /\ alarm' = alarm
            /\ last'.calls = <<>>
            /\ last'.failed \in {"none", "get_config"}
            /\ last'.failed = "none" => last'.res = "Ok"
      ]_vars

C8_Witness ==
    /\ last.op = "switch_monitor"
    /\ last.pre = "running"
    /\ last.arg = Some(FALSE)
    /\ last.res = "Ok"
    /\ alarm # None
    /\ storage_config[1].state.next_check_at # now

\* C9: no outcome of a Switch leaves the stored state flipped with a timer
\* that does not match it (Running without its timer, or Paused with a
\* pending timer).
C9_SwitchFlipsAtomically ==
    (/\ last.op = "switch_monitor"
     /\ last.pre # "absent"
     /\ storage_config[1].state.status # last.pre) => TimerMatchesState

\* C10: a successful Switch(paused=true) on a Running project leaves the
\* stored state Paused and no timer pending; no alarm fires while the project
\* is Paused without a timer, and OnAlarm runs the check only on a stored
\* Running state, so no autonomous check runs until a Switch(paused=false) or
\* a Setup.
C10_PauseCancelsTimer ==
    /\ [](( /\ last.op = "switch_monitor"
            /\ last.arg = Some(TRUE)
            /\ last.pre = "running"
            /\ last.res = "Ok") =>
              /\ storage_config # None
              /\ storage_config[1].state = Paused
              /\ alarm = None)
    /\ [][ /\ (storage_config # None /\ is_paused(storage_config[1].state)
                 /\ alarm = None) => last'.op # "on_alarm"
           /\ (last'.op = "on_alarm" /\ last'.check.res # "none") =>
                 (storage_config # None /\ ~is_paused(storage_config[1].state))
           /\ (storage_config # None /\ is_paused(storage_config[1].state)
                 /\ storage_config' # None /\ ~is_paused(storage_config'[1].state))
                 => last'.op \in {"switch_monitor", "setup"}
         ]_vars

C10_Witness ==
    /\ last.op = "switch_monitor"
    /\ last.arg = Some(TRUE)
    /\ last.pre = "running"
    /\ last.res = "Ok"
    /\ alarm = None

\* C11: Switch(paused=false) on a Paused project runs no check and makes no
\* HTTP call; when it succeeds it has stored the config as Running with
\* next_check_at = now and scheduled the timer with zero delay, so the check
\* is left to the OnAlarm that this timer fires.
C11_ResumeSchedulesImmediateTimer ==
    [][ (/\ last'.op = "switch_monitor"
         /\ last'.arg = Some(FALSE)
         /\ storage_config # None
         /\ is_paused(storage_config[1].state)) =>
            /\ last'.http = <<>>
            /\ last'.check = NoCheck
            /\ storage_version' = storage_version
            /\ last'.res = "Ok" <=> last'.failed = "none"
            /\ last'.res = "Ok" =>
                  /\ storage_config' =
                        Some([storage_config[1] EXCEPT !.state = running(now)])
                  /\ alarm' = Some(now)
                  /\ last'.calls = <<"put_config", "set_alarm">>
      ]_vars

C11_Witness ==
    /\ last.op = "switch_monitor"
    /\ last.arg = Some(FALSE)
    /\ last.pre = "paused"
    /\ last.res = "Ok"
    /\ now = 1
    /\ storage_config[1].state = running(1)
    /\ alarm = Some(1)

\* C12: OnAlarm with no stored config, or with a stored Paused config, runs
\* no check (no fetch, no dispatch), writes nothing to storage and schedules no
\* new timer: no timer is pending afterwards; it cancels the timer and returns
\* success (its config read and its cancel call succeeding).
C12_AlarmWithoutRunningConfigCancels ==
    [][ (/\ last'.op = "on_alarm"
         /\ \/ storage_config = None
            \/ is_paused(storage_config[1].state)) =>
            /\ last'.http = <<>>
            /\ last'.check = NoCheck
            /\ storage_config' = storage_config
            /\ storage_version' = storage_version
            /\ alarm' = None
            /\ \A c \in {"set_alarm", "put_config", "put_version"} : ~Has(last'.calls, c)
            /\ last'.failed = "none" =>
                  /\ last'.res = "Ok"
                  /\ last'.calls = <<"delete_alarm">>
      ]_vars

C12_Witness ==
    /\ last.op = "on_alarm"
    /\ last.pre = "paused"
    /\ last.res = "Ok"
    /\ last.calls = <<"delete_alarm">>
    /\ storage_config # None
    /\ alarm = None

C12_WitnessAbsent ==
    /\ last.op = "on_alarm"
    /\ last.pre = "absent"
    /\ last.res = "Ok"
    /\ last.calls = <<"delete_alarm">>
    /\ storage_config = None
    /\ alarm = None

\* C13: Trigger with no stored config fails with NotFound and makes no fetch
\* or dispatch call; with a stored config, Running or Paused, it runs the
\* check at once (one fetch) and, whether the check succeeds or fails, leaves
\* the stored config (state and next_check_at) and the pending timer exactly
\* as they were.
C13_TriggerLeavesSchedule ==
    [][ last'.op = "trigger" =>
            /\ storage_config' = storage_config
            /\ alarm' = alarm
            /\ \A c \in {"put_config", "set_alarm", "delete_alarm"} :
                  ~Has(last'.calls, c)
            /\ (storage_config = None /\ last'.failed = "none") =>
                  /\ last'.res = "NotFound"
                  /\ last'.http = <<>>
                  /\ last'.check = NoCheck
                  /\ storage_version' = storage_version
            /\ (storage_config # None /\ last'.failed # "get_config") =>
                  /\ last'.check.res \in {"Ok", "Store"}
                  /\ last'.res = last'.check.res
                  /\ Cardinality(Fetches(last'.http)) = 1
      ]_vars

C13_Witness ==
    /\ last.op = "trigger"
    /\ last.pre = "paused"
    /\ last.check.why = "dispatched"
    /\ last.res = "Ok"
    /\ storage_config[1].state = Paused
    /\ alarm = None

C13_WitnessNotFound ==
    /\ last.op = "trigger"
    /\ last.pre = "absent"
    /\ last.res = "NotFound"

\* C14: a Stop whose storage and alarm calls succeed returns success and
\* leaves no stored config, no stored fingerprint and no pending timer, from
\* any prior state; on an actor that is already in that state (stopped before,
\* or never set up) it succeeds and changes nothing.
Absent == storage_config = None /\ storage_version = None /\ alarm = None

C14_StopClearsAndIsIdempotent ==
    [][ (last'.op = "stop" /\ last'.failed = "none") =>
            /\ last'.res = "Ok"
            /\ Absent'
            /\ last'.calls = <<"delete_config", "delete_version", "delete_alarm">>
            /\ Absent => UNCHANGED <<storage_config, storage_version, alarm>>
      ]_vars

C14_Witness ==
    /\ last.op = "stop"
    /\ last.res = "Ok"
    /\ last.pre = "absent"
    /\ Absent

C14_WitnessFromRunning ==
    /\ last.op = "stop"
    /\ last.res = "Ok"
    /\ last.pre = "running"
    /\ Absent

\* C15: whenever the actor has no stored configuration it has no pending
\* timer (and, the monitor state being part of the configuration, no state).
C15_AbsentHasNoTimer == storage_config = None => alarm = None

\* C16: a check that reaches token resolution dispatches with the value of the
\* project's named secret when it resolves, with the global token when the
\* named secret does not resolve or when none is named; it fails for a missing
\* secret only when the global token itself is missing.
ReachedTokenResolution(l) ==
    /\ IsCheckOp(l)
    /\ \/ l.check.why \in {"secret", "dispatch", "dispatched"}
       \/ Dispatches(l.http) # {}

C16_TokenResolution ==
    ReachedTokenResolution(last) =>
        LET named == storage_config[1].request.dispatch_token_secret
            sent == Dispatches(last.http)
        IN /\ last.check.why = "secret" => named = None
           /\ last.check.why # "secret" => Cardinality(sent) = 1
           /\ \A i \in sent :
                 last.http[i].token \in
                    IF named = None
                    THEN {SecretValue(default_pat_name)}
                    ELSE {SecretValue(named[1]), SecretValue(default_pat_name)}

\* C17: when the fetched release lacks the timestamp field of the project's
\* comparison mode the check returns success without a dispatch call or a
\* fingerprint write, so an OnAlarm in this case reschedules with
\* check_interval.
C17_MissingTimestampSkipped ==
    (IsCheckOp(last) /\ last.check.why = "no_timestamp") =>
        /\ last.check.res = "Ok"
        /\ Dispatches(last.http) = {}
        /\ ~Has(last.calls, "put_version")
        /\ (last.op = "on_alarm" /\ last.res = "Ok") =>
              alarm = Some(now + storage_config[1].request.check_interval)

\* C18: when the stored fingerprint carries the other mode tag than the
\* fetched release, the check goes on past the comparison as for a newer
\* release: it never ends as "not newer", it makes the dispatch call once the
\* token resolves, and when the dispatch is answered 204 and the write
\* succeeds the stored fingerprint is the fetched, newly tagged one and the
\* check returns success.
ComparedWith(l, local_state) ==
    /\ IsCheckOp(l)
    /\ l.check.remote # None
    /\ local_state # None
    /\ ~(l.check.why = "storage" /\ Dispatches(l.http) = {})

C18_ModeMismatchProceeds ==
    [][ (/\ ComparedWith(last', storage_version)
         /\ storage_version[1].timestamp.mode
               # last'.check.remote[1].timestamp.mode) =>
            LET remote == last'.check.remote[1]
                sent == Dispatches(last'.http)
            IN /\ last'.check.why \in {"secret", "dispatch", "dispatched", "storage"}
               /\ last'.check.why # "secret" =>
                     /\ Cardinality(sent) = 1
                     /\ \A i \in sent : last'.http[i].version = remote.tag_name
               /\ (DispatchedOk(last') /\ last'.check.why # "storage") =>
                     /\ last'.check.res = "Ok"
                     /\ storage_version' = Some(remote)
               /\ last'.check.res = "Ok" => storage_version' = Some(remote)
      ]_vars

C18_Witness ==
    /\ IsCheckOp(last)
    /\ last.check.why = "dispatch"
    /\ Dispatches(last.http) # {}
    /\ storage_version # None
    /\ storage_version[1].timestamp.mode # last.check.remote[1].timestamp.mode
    /\ storage_version[1].timestamp.t > last.check.remote[1].timestamp.t

\* C19: for two fingerprints of the same mode the remote one is newer if and
\* only if its timestamp is strictly greater, whatever the two tag names; a
\* check that finds the remote one not newer returns success after its one
\* fetch, with no dispatch call and no write.
C19_StrictlyGreaterIsNewer ==
    /\ [](\A mode \in ComparisonMode : \A t_new, t_old, a, b \in Stamps :
            is_newer_than(fetch_latest_release(mode, TagOf(a), t_new),
                          fetch_latest_release(mode, TagOf(b), t_old))
               = IF t_new > t_old THEN "Ok(true)" ELSE "Ok(false)")
    /\ [][ (/\ ComparedWith(last', storage_version)
            /\ storage_version[1].timestamp.mode
                  = last'.check.remote[1].timestamp.mode) =>
               LET remote == last'.check.remote[1]
                   newer == remote.timestamp.t > storage_version[1].timestamp.t
               IN /\ newer <=> last'.check.why # "not_newer"
                  /\ ~newer =>
                        /\ last'.check.res = "Ok"
                        /\ last'.http = <<FetchCall(200)>>
                        /\ ~Has(last'.calls, "put_version")
                        /\ storage_version' = storage_version
         ]_vars

C19_Witness ==
    /\ last.op = "trigger"
    /\ last.res = "Ok"
    /\ last.check.why = "not_newer"
    /\ storage_version # None
    /\ storage_version[1].timestamp.mode = last.check.remote[1].timestamp.mode
    /\ storage_version[1].timestamp.t > last.check.remote[1].timestamp.t

MonitorCalls(calls) == {i \in 1..Len(calls) : calls[i][1] \notin
                           {"storage:contains", "storage:add", "storage:remove",
                            "storage:list"}}

C21_RegisterTwiceOneEntry ==
    [][ (reg_last'.op = "register" /\ reg_last'.failed = "none") =>
            LET k == reg_last'.key IN
            /\ reg_last'.res = "Ok(key)"
            /\ reg_last'.calls = << <<"monitor:setup", k>>, <<"storage:add", k>> >>
            /\ members' = members \cup {k}
            /\ k \in members => members' = members
            /\ k \in DOMAIN monitor_configs'
            /\ monitor_configs'[k] = reg_last'.arg[1]
            /\ \A x \in DOMAIN monitor_configs \ {k} :
                  x \in DOMAIN monitor_configs' /\ monitor_configs'[x] = monitor_configs[x]
      ]_vars

C21_Witness ==
    /\ reg_last.op = "register"
    /\ reg_last.was_member
    /\ reg_last.res = "Ok(key)"
    /\ reg_last.arg = Some(RegConfig(reg_last.key, "r2"))
    /\ monitor_configs[reg_last.key] = RegConfig(reg_last.key, "r2")
    /\ Cardinality(members) = 1

\* C22: unregister, switch and trigger on a key that is not a member forward
\* no call to any Monitor Actor and leave the membership set unchanged, in
\* every outcome; they return false (the membership read succeeding).
C22_UnknownKeyForwardsNothing ==
    [][ (/\ reg_last'.op \in {"unregister", "switch_monitor", "trigger_check"}
         /\ reg_last'.key \notin members) =>
            /\ MonitorCalls(reg_last'.calls) = {}
            /\ UNCHANGED <<members, monitor_configs>>
            /\ reg_last'.failed \in {"none", "storage:contains"}
            /\ reg_last'.failed = "none" =>
                  /\ reg_last'.res = "Ok(false)"
                  /\ reg_last'.calls = << <<"storage:contains", reg_last'.key>> >>
      ]_vars

C22_Witness ==
    /\ reg_last.op = "trigger_check"
    /\ ~reg_last.was_member
    /\ reg_last.res = "Ok(false)"
    /\ members # {}
    /\ reg_last.key \in DOMAIN monitor_configs

\* C23: an unregister of a member key whose calls succeed checks membership,
\* then forwards Stop to the actor, then removes the key, in that order, and
\* returns true; after a true result the key is not a member, and a list
\* returns configs of member keys only.
C23_UnregisterOrder ==
    [][ /\ (/\ reg_last'.op = "unregister"
            /\ reg_last'.key \in members
            /\ reg_last'.failed = "none") =>
              LET k == reg_last'.key IN
              /\ reg_last'.res = "Ok(true)"
              /\ reg_last'.calls = << <<"storage:contains", k>>, <<"monitor:stop", k>>,
                                      <<"storage:remove", k>> >>
              /\ members' = members \ {k}
              /\ k \notin DOMAIN monitor_configs'
        /\ (reg_last'.op = "unregister" /\ reg_last'.res = "Ok(true)") =>
              reg_last'.key \in members /\ reg_last'.key \notin members'
        /\ (reg_last'.op = "list" /\ reg_last'.res = "Ok") =>
              \A c \in reg_last'.listed : c.unique_key \in members
      ]_vars

C23_Witness ==
    /\ reg_last.op = "unregister"
    /\ reg_last.was_member
    /\ reg_last.res = "Ok(true)"
    /\ reg_last.key \notin members
    /\ members # {}

\* C24: list makes exactly one GetConfig call per member key, in any order,
\* and fails only when the read of the membership set fails: with the member
\* keys whose GetConfig fails dropped, it returns success with exactly the
\* configs held by the actors of the other member keys, and leaves the
\* membership set unchanged.
C24_ListBulkhead ==
    [][ reg_last'.op = "list" =>
            /\ UNCHANGED <<members, monitor_configs>>
            /\ reg_last'.res = "Err" <=> reg_last'.failed = "storage:list"
            /\ reg_last'.res = "Ok" =>
                  LET calls == reg_last'.calls
                      gets == MonitorCalls(calls)
                      others == members \ reg_last'.failing
                  IN /\ Len(calls) = Cardinality(members) + 1
                     /\ calls[1] = <<"storage:list", "">>
                     /\ \A i \in gets : calls[i][1] = "monitor:get_config"
                     /\ \A k \in members :
                           Cardinality({i \in gets : calls[i][2] = k}) = 1
                     /\ reg_last'.listed =
                           {monitor_configs[k] : k \in others \cap DOMAIN monitor_configs}
                     /\ others \subseteq DOMAIN monitor_configs =>
                           Cardinality(reg_last'.listed) = Cardinality(others)
      ]_vars

C24_Witness ==
    /\ reg_last.op = "list"
    /\ reg_last.res = "Ok"
    /\ Cardinality(members) = 2
    /\ Cardinality(reg_last.failing) = 1
    /\ Cardinality(reg_last.listed) = 1
    /\ reg_last.calls[2][2] = "project-b"

\* What the last step of the Batch Runner did: the check that moved.
Moved(i) ==
    /\ i \in DOMAIN sweep.checks
    /\ sweep'.checks[i].pc # sweep.checks[i].pc

RemoteTime(i) ==
    get_comparison_timestamp(sweep.checks[i].release[1],
                             batch_configs[i].comparison_mode)[1]

\* The fingerprint a Monitor Actor of the same mode holds for a stored time.
ActorState(mode, local_time) ==
    IF local_time = None THEN None
    ELSE Some(fetch_latest_release(mode, TagOf(local_time[1]), local_time[1]))

\* C25: for every stored fingerprint (none, older, equal or later than the
\* remote) and fetched release of the same comparison mode, the comparison of
\* the Batch Runner's check goes on to dispatch exactly when the Monitor
\* Actor's check does, and the fingerprint it stores on success is the remote
\* one.
C25_BatchDecidesLikeActor ==
    [][\A i \in DOMAIN sweep.checks :
         LET mode == batch_configs[i].comparison_mode
             remote_release ==
                 fetch_latest_release(mode, sweep.checks[i].release[1].tag_name,
                                      RemoteTime(i))
         IN
         /\ (/\ sweep.checks[i].pc = "get_version_state"
             /\ Moved(i)
             /\ sweep'.checks[i].local # <<>>)
            => ((sweep'.checks[i].pc = "trigger_dispatch")
                <=> proceeds_to_dispatch(remote_release,
                                         ActorState(mode, sweep'.checks[i].local[1])))
         /\ (sweep.checks[i].pc = "set_version_state" /\ sweep'.checks[i].wrote # {})
            => kv'[version_store_key(batch_configs[i])] = Some(RemoteTime(i))
      ]_vars

Processed(i) == {k \in DOMAIN sweep.results : sweep.results[k].i = i}

SweepCounts ==
    /\ Cardinality(in_flight(sweep)) <= CONCURRENCY_LIMIT
    /\ DOMAIN sweep.checks = 1..(sweep.next - 1)
    /\ sweep.next <= Len(batch_configs) + 1
    /\ \A i \in DOMAIN batch_configs :
          Cardinality(Processed(i)) =
              IF i \in DOMAIN sweep.checks /\ sweep.checks[i].pc = "done" THEN 1 ELSE 0
    /\ sweep.final # "running"
          => /\ Len(sweep.results) = Len(batch_configs)
             /\ \A i \in DOMAIN batch_configs : Cardinality(Processed(i)) = 1

\* C26: during a sweep never more than CONCURRENCY_LIMIT checks are in
\* flight, every listed project is started once and has one outcome once its
\* check is done, and in every order of completion the sweep ends, with
\* exactly one outcome per project.
C26_SweepBoundedAndComplete ==
    []SweepCounts /\ <>(sweep.final # "running")

\* Five checks in flight while a further project waits for a free place.
C26_Witness ==
    /\ Cardinality(in_flight(sweep)) = CONCURRENCY_LIMIT
    /\ sweep.next <= Len(batch_configs)

OutcomeOf(i) == {sweep.results[k].outcome : k \in Processed(i)}

PausedSkipped ==
    \A i \in DOMAIN sweep.checks :
        LET check == sweep.checks[i] IN
        IF batch_configs[i].paused
        THEN /\ ~check.fetched
             /\ check.dispatched = None
             /\ check.read = {} /\ check.wrote = {}
             /\ check.pc = "done" => OutcomeOf(i) = {"Skipped (Paused)"}
        ELSE /\ check.pc # "new" => check.fetched
             /\ OutcomeOf(i) # {"Skipped (Paused)"}

AllChecked ==
    sweep.final # "running"
        => \A i \in DOMAIN batch_configs :
              /\ OutcomeOf(i) # {}
              /\ ~batch_configs[i].paused => sweep.checks[i].fetched

\* C27: a paused project is reported skipped with no fetch, no dispatch and
\* no read or write of the version store, and its step leaves the store as
\* it was; every project not paused has its check run (the fetch is made),
\* and when the sweep ends every project has its outcome, whatever checks
\* ended in error.
C27_PausedSkippedOthersChecked ==
    /\ [](PausedSkipped /\ AllChecked)
    /\ [][\A i \in DOMAIN sweep.checks :
            (Moved(i) /\ batch_configs[i].paused) => kv' = kv]_vars

\* A sweep that ended with a paused project skipped, a check that failed,
\* and a check of a later-finishing project that dispatched and stored.
C27_Witness ==
    /\ sweep.final = "joined"
    /\ \E i \in DOMAIN batch_configs :
          batch_configs[i].paused /\ OutcomeOf(i) = {"Skipped (Paused)"}
    /\ \E a, b \in DOMAIN sweep.results :
          /\ a < b
          /\ sweep.results[a].outcome = "Error checking"
          /\ sweep.results[b].outcome = "Updated"

\* C28: a check of one project neither reads nor writes the fingerprint used
\* by a project with a different unique key, in every interleaving of the
\* checks of a sweep, two projects on one upstream with different downstreams
\* included.
C28_FingerprintOwned ==
    \A i \in DOMAIN sweep.checks, q \in DOMAIN batch_configs :
        generate_unique_key(batch_configs[i]) # generate_unique_key(batch_configs[q])
            => version_store_key(batch_configs[q])
                  \notin (sweep.checks[i].read \cup sweep.checks[i].wrote)

\* C29: a check of Trigger that fails because the upstream fetch failed or
\* the dispatch was answered with a status other than 204 is seen by the
\* caller as ExternalApi (502).
C29_ExternalFailureIsExternalApi ==
    (last.op = "trigger" /\ last.check.why \in {"fetch", "dispatch"})
        => (last.res = "ExternalApi" /\ status_code(last.res) = 502)

RpcCallSpan == ErrorSpan("rpc.call", Some(rpc.path))

\* C30: the error a handler returned reaches the caller of the RPC client
\* with the same status, the same message and the same spans in the same
\* order followed by exactly one rpc.call span; a response that is not 200
\* and lacks the structured-error marker becomes a Store error.
C30_ErrorRoundTrip ==
    rpc.phase = "received" =>
        /\ (rpc.returned # None /\ ~rpc.returned[1].ok)
              => /\ ~rpc.got[1].ok
                 /\ rpc.got[1].value.status = rpc.returned[1].value.status
                 /\ rpc.got[1].value.message = rpc.returned[1].value.message
                 /\ rpc.got[1].value.spans
                        = rpc.returned[1].value.spans \o <<RpcCallSpan>>
                 /\ rpc.response[1].status = status_code(rpc.returned[1].value.status)
        /\ (rpc.response[1].status # 200
            /\ RPC_ERROR_HEADER \notin rpc.response[1].headers)
              => /\ ~rpc.got[1].ok
                 /\ rpc.got[1].value.status = "Store"
                 /\ rpc.got[1].value.spans = <<RpcCallSpan>>

\* An error with a two-span trail, one span without detail, came back whole.
C30_Witness ==
    /\ rpc.phase = "received"
    /\ rpc.returned # None /\ ~rpc.returned[1].ok
    /\ rpc.returned[1].value.status = "ExternalApi"
    /\ Len(rpc.returned[1].value.spans) = 2
    /\ rpc.returned[1].value.spans[1].detail = None
    /\ Len(rpc.got[1].value.spans) = 3

\* A response without the marker was folded into a Store error.
C30_WitnessPlain ==
    /\ rpc.phase = "received"
    /\ rpc.response[1].status = 405
    /\ rpc.got[1].value.status = "Store"

\* C32: Switch on an actor without stored config, for either value of
\* paused, returns NotFound, makes no storage write and no alarm call, and
\* leaves config, fingerprint and timer as they were.
C32_SwitchWithoutConfigNotFound ==
    [][ (/\ last'.op = "switch_monitor"
         /\ storage_config = None
         /\ last'.failed = "none") =>
            /\ last'.res = "NotFound"
            /\ last'.calls = <<>>
            /\ UNCHANGED <<storage_config, storage_version, alarm>>
      ]_vars

\* A resume of an actor without config was refused.
C32_Witness ==
    /\ last.op = "switch_monitor"
    /\ last.pre = "absent"
    /\ last.arg = Some(FALSE)
    /\ last.res = "NotFound"
    /\ storage_config = None

\* A pause of an actor without config was refused.
C32_WitnessPause ==
    /\ last.op = "switch_monitor"
    /\ last.pre = "absent"
    /\ last.arg = Some(TRUE)
    /\ last.res = "NotFound"

\* C33: GetConfig changes neither storage nor the timer and makes no write;
\* when its read succeeds it returns Ok with the stored config, state
\* included, or with absence when none is stored, never NotFound.
C33_GetConfigReadOnly ==
    [][ last'.op = "get_config" =>
            /\ UNCHANGED <<storage_config, storage_version, alarm>>
            /\ last'.calls = <<>>
            /\ last'.res # "NotFound"
            /\ last'.failed = "none" =>
                  (last'.res = "Ok" /\ last'.arg = storage_config)
      ]_vars

\* GetConfig answered absence.
C33_Witness ==
    /\ last.op = "get_config"
    /\ last.res = "Ok"
    /\ last.arg = None
    /\ storage_config = None

\* GetConfig answered the stored config of a paused project.
C33_WitnessStored ==
    /\ last.op = "get_config"
    /\ last.res = "Ok"
    /\ last.arg # None
    /\ last.arg = storage_config
    /\ is_paused(last.arg[1].state)

\* C39: Setup, Switch, GetConfig and the absent and paused branches of
\* OnAlarm leave the stored fingerprint as it is and make no HTTP call; the
\* fingerprint gets a value only in a check whose dispatch was answered 204,
\* and is removed only by Stop.
C39_FingerprintFrame ==
    [][ /\ last'.op \in {"setup", "switch_monitor", "get_config"} =>
              /\ storage_version' = storage_version
              /\ last'.http = <<>>
        /\ (last'.op = "on_alarm" /\ last'.pre \in {"absent", "paused"}) =>
              /\ storage_version' = storage_version
              /\ last'.http = <<>>
        /\ storage_version' # storage_version =>
              IF storage_version' = None
              THEN last'.op = "stop"
              ELSE IsCheckOp(last') /\ DispatchedOk(last')
      ]_vars

\* Setup ran again on a project that holds a fingerprint, and kept it.
C39_Witness ==
    /\ last.op = "setup"
    /\ last.res = "Ok"
    /\ last.pre # "absent"
    /\ storage_version # None

\* The alarm of a paused project fired while a fingerprint was stored.
C39_WitnessPausedAlarm ==
    /\ last.op = "on_alarm"
    /\ last.pre = "paused"
    /\ storage_version # None

\* The stored fingerprint was taken in the comparison mode of the config.
SameModeStored ==
    /\ storage_config # None
    /\ storage_version # None
    /\ storage_version[1].timestamp.mode
          = fetch_latest_release(storage_config[1].request.comparison_mode,
                                 TagOf(1), 1).timestamp.mode

\* C38: while the stored fingerprint is of the project's comparison mode, no
\* step but Stop removes it, no Trigger or OnAlarm check lowers its
\* timestamp, and a check that writes the fingerprint writes a strictly later
\* timestamp, or the first one when none was stored.
C38_FingerprintMonotone ==
    [][ /\ (SameModeStored /\ last'.op \in {"trigger", "on_alarm"}) =>
              /\ storage_version' # None
              /\ storage_version'[1].timestamp.mode = storage_version[1].timestamp.mode
              /\ storage_version'[1].timestamp.t >= storage_version[1].timestamp.t
              /\ Has(last'.calls, "put_version") =>
                    storage_version'[1].timestamp.t > storage_version[1].timestamp.t
        /\ (storage_version = None /\ Has(last'.calls, "put_version")) =>
              /\ IsCheckOp(last')
              /\ storage_version' = last'.check.remote
              /\ storage_version' # None
      ]_vars

\* A check met an upstream release older than the stored fingerprint of the
\* same mode and left the fingerprint in place.
C38_Witness ==
    /\ IsCheckOp(last)
    /\ SameModeStored
    /\ last.check.why = "not_newer"
    /\ last.check.remote[1].timestamp.mode = storage_version[1].timestamp.mode
    /\ last.check.remote[1].timestamp.t < storage_version[1].timestamp.t

\* The check read a fingerprint of another mode than the fetched release's.
ReadOtherMode(l) ==
    /\ IsCheckOp(l)
    /\ l.check.local # <<>>
    /\ l.check.local[1] # None
    /\ l.check.remote # None
    /\ l.check.local[1][1].timestamp.mode # l.check.remote[1].timestamp.mode

\* C37: a successful check that finds a fingerprint of the other mode sends
\* exactly one dispatch, for the fetched release, and stores that release in
\* the new mode; a check that then fetches the same release in the same
\* mode sends no dispatch and leaves the fingerprint as it is.
C37_ModeChangeOneExtraDispatch ==
    [][ /\ (ReadOtherMode(last') /\ last'.check.res = "Ok") =>
              /\ Cardinality(Dispatches(last'.http)) = 1
              /\ \A i \in Dispatches(last'.http) :
                    /\ last'.http[i].version = last'.check.remote[1].tag_name
                    /\ last'.http[i].status = 204
              /\ storage_version' = last'.check.remote
              /\ storage_version'[1].timestamp.mode
                    # last'.check.local[1][1].timestamp.mode
        /\ (/\ IsCheckOp(last')
            /\ SameModeStored
            /\ last'.check.remote # None
            /\ last'.check.remote[1].tag_name = storage_version[1].tag_name
            /\ last'.check.remote[1].timestamp.mode = storage_version[1].timestamp.mode) =>
              /\ Dispatches(last'.http) = {}
              /\ storage_version' = storage_version
      ]_vars

\* After a Setup in the other mode the check dispatched the release the old
\* fingerprint already named and rewrote the fingerprint in the new mode.
C37_Witness ==
    /\ ReadOtherMode(last)
    /\ last.check.why = "dispatched"
    /\ last.check.local[1][1].tag_name = last.check.remote[1].tag_name
    /\ storage_version = last.check.remote
    /\ SameModeStored

\* C35: a fire of the alarm on a Running project that ends in an error,
\* whether its check failed or one of its own storage or alarm calls did,
\* leaves the project, while it is still stored as Running, with a timer
\* pending, so that a later fire can still send the dispatch.
C35_FailedAlarmKeepsFutureTimer ==
    (/\ last.op = "on_alarm"
     /\ last.pre = "running"
     /\ (last.res # "Ok" \/ last.check.res = "Store")
     /\ storage_config # None
     /\ ~is_paused(storage_config[1].state))
        => alarm # None

\* C36: a register whose forwarded Setup fails returns the error, makes no
\* storage call and leaves the membership set as it was; an unregister of a
\* member whose forwarded Stop fails returns the error, makes no remove call
\* and leaves the key in the set; and whenever the set changes, the change
\* is the last call of the operation and directly follows the actor call on
\* the same key.
C36_ActorCallBeforeSetMutation ==
    [][ /\ (reg_last'.op = "register" /\ reg_last'.failed = "monitor:setup") =>
              /\ reg_last'.res = "Err"
              /\ members' = members
              /\ ~Has(reg_last'.calls, <<"storage:add", reg_last'.key>>)
        /\ (reg_last'.op = "unregister" /\ reg_last'.failed = "monitor:stop") =>
              /\ reg_last'.res = "Err"
              /\ reg_last'.key \in members
              /\ members' = members
              /\ ~Has(reg_last'.calls, <<"storage:remove", reg_last'.key>>)
        /\ members' # members =>
              LET calls == reg_last'.calls
                  n == Len(calls)
                  k == reg_last'.key
              IN /\ n >= 2
                 /\ \/ /\ reg_last'.op = "register"
                       /\ calls[n - 1] = <<"monitor:setup", k>>
                       /\ calls[n] = <<"storage:add", k>>
                       /\ members' = members \cup {k}
                    \/ /\ reg_last'.op = "unregister"
                       /\ calls[n - 1] = <<"monitor:stop", k>>
                       /\ calls[n] = <<"storage:remove", k>>
                       /\ members' = members \ {k}
      ]_vars

\* An unregister of a member failed at the Stop call and the key stayed.
C36_Witness ==
    /\ reg_last.op = "unregister"
    /\ reg_last.failed = "monitor:stop"
    /\ reg_last.res = "Err"
    /\ reg_last.key \in members

\* A register of a new key failed at the Setup call and the key was not added.
C36_WitnessRegister ==
    /\ reg_last.op = "register"
    /\ reg_last.failed = "monitor:setup"
    /\ reg_last.res = "Err"
    /\ reg_last.key \notin members

IsLimitAnswer(response) == response.status = 403 /\ response.remaining = Some("0")

\* C31: one send makes at most two requests; a second request is made only
\* after a first response 403 with remaining "0" and after exactly one
\* cooldown of 120 s; a first response of any other kind is returned at
\* once, and the second response is returned whatever it is.
C31_RetryOnceAfterCooldown ==
    /\ client.requests <= 2
    /\ Len(client.responses) <= client.requests
    /\ client.requests = 2 =>
          /\ IsLimitAnswer(client.responses[1])
          /\ client.sent_after = <<0, 120>>
          /\ client.sent[2] = client.sent[1]
    /\ (Len(client.responses) >= 1 /\ ~IsLimitAnswer(client.responses[1])) =>
          /\ client.requests = 1
          /\ client.pc = "done"
          /\ client.returned = Some(SendOk(client.responses[1]))
          /\ client.waited = 0
    /\ Len(client.responses) = 2 =>
          /\ client.pc = "done"
          /\ client.returned = Some(SendOk(client.responses[2]))
    /\ (client.pc = "done" /\ client.returned # Some(SendErr)) =>
          client.returned = Some(SendOk(client.responses[Len(client.responses)]))

\* The retry met the limit answer again, and that answer was returned.
C31_Witness ==
    /\ client.pc = "done"
    /\ client.requests = 2
    /\ client.req[1].method = "Post"
    /\ client.waited = 120
    /\ Len(client.responses) = 2
    /\ IsLimitAnswer(client.responses[2])
    /\ client.returned = Some(SendOk(client.responses[2]))

\* C34: a create_project whose upstream repo is empty or blank returns
\* InvalidInput without any registry call; one whose key is a member when
\* is_registered answers returns Conflict, forwards no register, and leaves
\* the membership set and every actor's config as they were.
C34_CreateConflictAndValidation ==
    [][ /\ (/\ admin'.last.op = "create_project"
            /\ admin'.last.calls # <<"registry:is_registered", "registry:register">>
            /\ trim(admin'.last.req[1].base.upstream_repo) = <<>>) =>
              /\ admin'.last.res = "InvalidInput"
              /\ admin'.last.calls = <<>>
              /\ admin'.pending = admin.pending
              /\ UNCHANGED <<members, monitor_configs>>
        /\ (/\ admin'.last.op \in {"create_project", "create_project:checked"}
            /\ admin'.last.calls = <<"registry:is_registered">>
            /\ admin'.last.res # "Store"
            /\ admin'.last.key[1] \in members) =>
              /\ admin'.last.op = "create_project"
              /\ admin'.last.res = "Conflict"
              /\ admin'.pending = admin.pending
              /\ UNCHANGED <<members, monitor_configs>>
      ]_vars

\* The create of a project that is registered with this very config was
\* refused.
C34_Witness ==
    /\ admin.last.op = "create_project"
    /\ admin.last.res = "Conflict"
    /\ admin.last.key[1] \in members
    /\ admin.last.key[1] \in DOMAIN monitor_configs
    /\ monitor_configs[admin.last.key[1]] = admin.last.req[1]

\* A blank upstream repo was refused.
C34_WitnessInvalid ==
    /\ admin.last.op = "create_project"
    /\ admin.last.res = "InvalidInput"
    /\ admin.last.req[1].base.upstream_repo = <<" ">>

\* C40: two configurations whose (upstream owner, upstream repo, downstream
\* owner, downstream repo) tuples differ have different unique keys: the
\* config of the last create_project and a config held by an actor or on its
\* way to register either have the same tuple or different keys.
C40_UniqueKeyIdentifies ==
    admin.last.req # None =>
        \A c \in {monitor_configs[k] : k \in DOMAIN monitor_configs} \cup admin.pending :
            c.base # admin.last.req[1].base
                => c.unique_key # admin.last.req[1].unique_key

====
